---- MODULE Spec2Model ----
(***************************************************************************)
(* Model of three subsystems of beartype:                                  *)
(*   - the package name cache     (beartype/claw/_clawpackagenames.py)     *)
(*   - the beartypistry registry  (beartype/_decor/_typistry.py)           *)
(*   - the AST node transformer   (beartype/claw/_clawast.py)              *)
(* Strings are sequences of one-character strings, so that str.split, the  *)
(* identifier test and key formatting are computed, not assumed.           *)
(***************************************************************************)
EXTENDS Integers, Sequences, FiniteSets, TLC

VARIABLES
    cache,      \* _package_basename_to_subpackages: path -> conf_if_registered
    clast,      \* outcome of the last package cache call
    ncalls,     \* number of registration calls made so far
    bear_typistry,    \* the Beartypistry singleton: key -> type or tuple
    memo_type,        \* results memoized for register_typistry_type()
    memo_tuple,       \* results memoized for register_typistry_tuple()
    memo_forwardref,  \* results memoized for register_typistry_forwardref()
    modules,          \* the importable modules and their attributes
    tlast,            \* outcome of the last beartypistry call
    tcalls,           \* number of registrar calls made so far
    tree,             \* the AST node handed to BeartypeNodeTransformer
    source,           \* that node as it was before the last visit
    alast,            \* outcome of the last visit
    nvisits,          \* number of visits made so far
    nodes,            \* the package cache as objects: id -> [kids, conf]
    claw_lock,        \* the thread holding _claw_lock, 0 if none
    thr,              \* the call of each thread of the package cache
    lin,              \* the cache of the calls made one by one in lock order
    rthr              \* the registrar call of each thread of the beartypistry

cvars == <<cache, clast, ncalls>>
tvars == <<bear_typistry, memo_type, memo_tuple, memo_forwardref, modules, tlast, tcalls>>
avars == <<tree, source, alast, nvisits>>
vars == <<cache, clast, ncalls,
          bear_typistry, memo_type, memo_tuple, memo_forwardref, modules, tlast, tcalls,
          tree, source, alast, nvisits,
          nodes, claw_lock, thr, lin, rthr>>
lvars == <<nodes, claw_lock, thr, lin>>
rvars == <<rthr>>

\* ------------------------------------------------------------------ bounds
MaxNameLen == 3     \* longest package name (characters) passed by a caller
MaxQueryLen == 5    \* longest package name (characters) passed to a query
MaxNames == 2       \* longest iterable of package names passed by a caller
MaxIterChars == 3   \* most characters of all names of one iterable together
MaxCalls == 2       \* most registration calls of one run
MaxTupleLen == 3    \* longest tuple passed to register_typistry_tuple()
MaxTypistryCalls == 2   \* most registrar calls of one run
HashMod == 3        \* number of distinct hash values of the tuples
MaxBody == 3        \* most statements of a module handed to the transformer
MaxArgs == 1        \* most positional parameters of a function definition
MaxVisits == 1      \* most visits of one tree
NumThreads == 2     \* number of threads calling the package cache

\* ----------------------------------------------------------- common values
None == [t |-> "NoneType"]
True == [t |-> "bool", v |-> TRUE]
False == [t |-> "bool", v |-> FALSE]
PyBool(b) == IF b THEN True ELSE False
NoExc == [cls |-> "none", msg |-> "none"]
Raise(cls, msg) == [cls |-> cls, msg |-> msg]
Chars == {"a", "."}
Dot == "."

RECURSIVE SeqsUpTo(_, _)
SeqsUpTo(S, n) ==
    IF n = 0 THEN {<<>>}
    ELSE LET shorter == SeqsUpTo(S, n - 1)
         IN  shorter \cup {Append(s, x) : s \in {t \in shorter : Len(t) = n - 1}, x \in S}

Names == SeqsUpTo(Chars, MaxNameLen)
QueryNames == SeqsUpTo(Chars, MaxQueryLen)

\* str.split('.'): the list of the substrings between the "." delimiters.
RECURSIVE SplitFrom(_, _, _)
SplitFrom(s, i, cur) ==
    IF i > Len(s) THEN <<cur>>
    ELSE IF s[i] = Dot THEN <<cur>> \o SplitFrom(s, i + 1, <<>>)
    ELSE SplitFrom(s, i + 1, Append(cur, s[i]))

Split(s) == SplitFrom(s, 1, <<>>)

\* str.isidentifier() over the alphabet of the model: non-empty, no ".".
IsPlainIdentifier(s) == Len(s) > 0 /\ \A i \in 1..Len(s) : s[i] # Dot

\* "."-delimited concatenation of one or more identifiers.
is_identifier(s) ==
    LET parts == Split(s) IN \A i \in 1..Len(parts) : IsPlainIdentifier(parts[i])

\* --------------------------------------------------------- package cache
BeartypeClawRegistrationException == "BeartypeClawRegistrationException"

C1 == [t |-> "BeartypeConf", id |-> 1]
C2 == [t |-> "BeartypeConf", id |-> 2]
Confs == {C1, C2}                      \* BeartypeConf instances
NotConf == [t |-> "int"]               \* an object that is no BeartypeConf
ConfArgs == Confs \cup {NotConf}

Str(s) == [t |-> "str", v |-> s]
Tuple(items) == [t |-> "tuple", v |-> items]
NotStr == [t |-> "int"]                \* neither a string nor an iterable

Items == {Str(n) : n \in Names} \cup {NotStr}

ItemChars(it) == IF it.t = "str" THEN Len(it.v) ELSE 0

RECURSIVE TotalChars(_)
TotalChars(items) ==
    IF items = <<>> THEN 0 ELSE ItemChars(Head(items)) + TotalChars(Tail(items))

Iterables ==
    {Tuple(items) : items \in {s \in SeqsUpTo(Items, MaxNames) : TotalChars(s) <= MaxIterChars}}

\* An iterable that is no sized collection and can be traversed only once (an
\* iterator, a generator): it is true as a condition whatever it yields.
Iter(items) == [t |-> "iterator", v |-> items]
Iterators == {Iter(it.v) : it \in Iterables}

PackageNamesArgs == Items \cup Iterables \cup Iterators

Root == <<>>

\* The walk of lines 89-112 answering True as soon as the subpackage has a
\* node, without testing a configuration.
RECURSIVE IsRegisteredWalk_AnyNode(_, _, _, _)
IsRegisteredWalk_AnyNode(c, package_basenames, i, curr) ==
    IF i > Len(package_basenames) THEN FALSE
    ELSE Append(curr, package_basenames[i]) \in DOMAIN c

\* is_package_registered(): the walk of lines 89-112 from index i at node curr.
RECURSIVE IsRegisteredWalk(_, _, _, _)
IsRegisteredWalk(c, package_basenames, i, curr) ==
    IF i > Len(package_basenames) THEN FALSE
    ELSE LET package_subpackages == Append(curr, package_basenames[i])
         IN  IF package_subpackages \notin DOMAIN c THEN FALSE
             ELSE IF c[Root] # None THEN TRUE
             ELSE IsRegisteredWalk(c, package_basenames, i + 1, package_subpackages)

\* is_package_registered() without the test of the root cache of lines 67-68.
is_package_registered_in_NoShortCircuit(c, package_name) ==
    IsRegisteredWalk(c, Split(package_name), 1, Root)

is_package_registered_in(c, package_name) ==
    IF c[Root] # None THEN TRUE
    ELSE IsRegisteredWalk(c, Split(package_name), 1, Root)

is_package_registered(package_name) == is_package_registered_in(cache, package_name)

\* is_packages_registered_any() answering True also for a root cache that
\* carries a configuration and has no subcache.
is_packages_registered_any_OrRoot ==
    cache[Root] # None \/ \E p \in DOMAIN cache : Len(p) = 1

\* is_packages_registered_any(): bool() of the root dictionary.
is_packages_registered_any == \E p \in DOMAIN cache : Len(p) = 1

\* The descent of lines 278-305 without the test of line 297: every name on
\* the way is assigned a new subcache, which drops the subcache it had with
\* all its descendants.
RECURSIVE Descend_AlwaysNew(_, _, _, _)
Descend_AlwaysNew(c, package_basenames, i, curr) ==
    IF i > Len(package_basenames) THEN [cache |-> c, node |-> curr]
    ELSE LET sub == Append(curr, package_basenames[i])
             kept == {p \in DOMAIN c : ~(Len(p) >= Len(sub) /\ SubSeq(p, 1, Len(sub)) = sub)}
             c1 == [p \in kept \cup {sub} |-> IF p = sub THEN None ELSE c[p]]
         IN  Descend_AlwaysNew(c1, package_basenames, i + 1, sub)

\* register_packages(), lines 278-305: descend from curr, creating the
\* missing subcaches; yields the cache and the terminal node.
RECURSIVE Descend(_, _, _, _)
Descend(c, package_basenames, i, curr) ==
    IF i > Len(package_basenames) THEN [cache |-> c, node |-> curr]
    ELSE LET sub == Append(curr, package_basenames[i])
             c1 == IF sub \in DOMAIN c THEN c
                   ELSE [p \in DOMAIN c \cup {sub} |-> IF p = sub THEN None ELSE c[p]]
         IN  Descend(c1, package_basenames, i + 1, sub)

\* register_packages(), lines 257-337, for one package name: a terminal node
\* configured otherwise is overwritten without an exception.
RegisterName_Overwrite(c, package_name, conf) ==
    LET d == Descend(c, Split(package_name), 1, Root)
    IN  [cache |-> [d.cache EXCEPT ![d.node] = conf], exc |-> NoExc]

\* register_packages(), lines 257-337, for one package name: any configured
\* terminal node raises, also one carrying the same configuration.
RegisterName_RaiseOnSame(c, package_name, conf) ==
    LET d == Descend(c, Split(package_name), 1, Root)
    IN  IF d.cache[d.node] = None
        THEN [cache |-> [d.cache EXCEPT ![d.node] = conf], exc |-> NoExc]
        ELSE [cache |-> d.cache,
              exc |-> Raise(BeartypeClawRegistrationException, "previously registered")]

\* register_packages(), lines 257-337, for one package name.
RegisterName(c, package_name, conf) ==
    LET d == Descend(c, Split(package_name), 1, Root)
    IN  IF d.cache[d.node] = None
        THEN [cache |-> [d.cache EXCEPT ![d.node] = conf], exc |-> NoExc]
        ELSE IF d.cache[d.node] # conf
        THEN [cache |-> d.cache,
              exc |-> Raise(BeartypeClawRegistrationException, "previously registered")]
        ELSE [cache |-> d.cache, exc |-> NoExc]

\* register_packages(), lines 257-337: the registration loop over the names.
RECURSIVE RegisterNames(_, _, _)
RegisterNames(c, items, conf) ==
    IF items = <<>> THEN [cache |-> c, exc |-> NoExc]
    ELSE LET r == RegisterName(c, Head(items).v, conf)
         IN  IF r.exc # NoExc THEN r ELSE RegisterNames(r.cache, Tail(items), conf)

\* register_packages(), lines 239-253: the first invalid item of the names, if any.
RECURSIVE ValidateNames(_)
ValidateNames(items) ==
    IF items = <<>> THEN NoExc
    ELSE IF Head(items).t # "str"
    THEN Raise(BeartypeClawRegistrationException, "not string")
    ELSE IF ~is_identifier(Head(items).v)
    THEN Raise(BeartypeClawRegistrationException, "name invalid")
    ELSE ValidateNames(Tail(items))

\* register_packages(), lines 212-253: the exception of the validation, if any.
Validate(package_names, conf) ==
    LET names == IF package_names.t = "str" THEN Tuple(<<package_names>>) ELSE package_names
    IN  IF conf \notin Confs
        THEN Raise(BeartypeClawRegistrationException, "configuration invalid")
        ELSE IF names.t \notin {"tuple", "iterator"}
        THEN Raise(BeartypeClawRegistrationException, "not iterable")
        ELSE IF names.t = "tuple" /\ names.v = <<>>
        THEN Raise(BeartypeClawRegistrationException, "names empty")
        ELSE ValidateNames(names.v)

\* register_packages(), lines 151-337: the loop of lines 257-337 traverses
\* package_names again, and an iterator traversed by the loop of lines
\* 239-253 yields nothing more.
LoopNames(package_names) ==
    CASE package_names.t = "str" -> <<package_names>>
      [] package_names.t = "tuple" -> package_names.v
      [] package_names.t = "iterator" -> <<>>
      [] OTHER -> <<>>

\* register_packages() undoing the registrations of the call when a name
\* raises the conflict.
register_packages_Rollback(c, package_names, conf) ==
    IF Validate(package_names, conf) # NoExc
    THEN [cache |-> c, exc |-> Validate(package_names, conf)]
    ELSE LET r == RegisterNames(c, LoopNames(package_names), conf)
         IN  IF r.exc # NoExc THEN [cache |-> c, exc |-> r.exc] ELSE r

register_packages(c, package_names, conf) ==
    LET exc == Validate(package_names, conf)
    IN  IF exc # NoExc
        THEN [cache |-> c, exc |-> exc]
        ELSE RegisterNames(c, LoopNames(package_names), conf)

\* ------------------------------------------------------------------ actions
CallRegisterPackages(package_names, conf) ==
    LET r == register_packages(cache, package_names, conf)
    IN  /\ ncalls < MaxCalls
        /\ ncalls' = ncalls + 1
        /\ cache' = r.cache
        /\ clast' = [op |-> "register_packages", exc |-> r.exc, ret |-> None,
                     changed |-> r.cache # cache,
                     began |-> /\ LoopNames(package_names) # <<>>
                               /\ Validate(package_names, conf) = NoExc]

CallIsPackageRegistered(package_name) ==
    /\ clast' = [op |-> "is_package_registered", exc |-> NoExc,
                 ret |-> PyBool(is_package_registered(package_name)),
                 changed |-> FALSE, began |-> FALSE]
    /\ UNCHANGED <<cache, ncalls>>

CallIsPackagesRegisteredAny ==
    /\ clast' = [op |-> "is_packages_registered_any", exc |-> NoExc,
                 ret |-> PyBool(is_packages_registered_any), changed |-> FALSE,
                 began |-> FALSE]
    /\ UNCHANGED <<cache, ncalls>>

\* beartype.claw.beartype_all(): registers a configuration with the root cache.
BeartypeAll(conf) ==
    /\ cache[Root] = None
    /\ ncalls < MaxCalls
    /\ ncalls' = ncalls + 1
    /\ cache' = [cache EXCEPT ![Root] = conf]
    /\ clast' = [op |-> "beartype_all", exc |-> NoExc, ret |-> None, changed |-> TRUE,
                 began |-> FALSE]

InitCache ==
    /\ cache = [p \in {Root} |-> None]
    /\ clast = [op |-> "none", exc |-> NoExc, ret |-> None, changed |-> FALSE,
               began |-> FALSE]
    /\ ncalls = 0

NextCache ==
    \/ \E pn \in PackageNamesArgs, conf \in ConfArgs : CallRegisterPackages(pn, conf)
    \/ \E n \in QueryNames : CallIsPackageRegistered(n)
    \/ CallIsPackagesRegisteredAny
    \/ \E conf \in Confs : BeartypeAll(conf)


\* ------------------------------------------------------------ beartypistry
_BeartypeDecorBeartypistryException == "_BeartypeDecorBeartypistryException"
BeartypeDecorHintForwardRefException == "BeartypeDecorHintForwardRefException"
BeartypeCallHintForwardRefException == "BeartypeCallHintForwardRefException"
ValueError == "ValueError"

_TYPISTRY_HINT_NAME_TUPLE_PREFIX == <<"+">>
_CODE_TYPISTRY_HINT_NAME_TO_HINT_PREFIX == <<"__beartypistry", "[">>
_CODE_TYPISTRY_HINT_NAME_TO_HINT_SUFFIX == <<"]">>

\* repr() of a string without quotes or escapes in it.
Repr(s) == <<"'">> \o s \o <<"'">>

\* The f-string of lines 130-133, 210-213 and 374-377.
CodeFragment(hint_name) ==
    _CODE_TYPISTRY_HINT_NAME_TO_HINT_PREFIX \o Repr(hint_name)
        \o _CODE_TYPISTRY_HINT_NAME_TO_HINT_SUFFIX

Builtins == <<"b", "u", "i", "l", "t", "i", "n", "s">>

\* Classes: objects with an identity, a __module__ and a __qualname__.
Class(id, module, basename) ==
    [t |-> "type", id |-> id, module |-> module, basename |-> basename, pep |-> FALSE]
ClsA == Class("A", <<"m">>, <<"A">>)
ClsB == Class("B", <<"m">>, <<"B">>)
ClsA2 == Class("A2", <<"m">>, <<"A">>)      \* another class also named m.A
ClsInt == Class("int", Builtins, <<"i", "n", "t">>)
NonClass == [t |-> "int"]                   \* an object that is no class
\* A PEP-compliant class, such as typing.SupportsInt.
ClsPep == [Class("P", <<"t">>, <<"P">>) EXCEPT !.pep = TRUE]

Classes == {ClsA, ClsB, ClsA2, ClsInt}
TupleClasses == {ClsA, ClsB}

get_object_classname(obj) == obj.module \o <<Dot>> \o obj.basename
get_object_class_basename(obj) == obj.basename
is_class_builtin(cls) == cls.module = Builtins

StartsWith(s, prefix) ==
    Len(prefix) <= Len(s) /\ SubSeq(s, 1, Len(prefix)) = prefix

is_classname_builtin(classname) == StartsWith(classname, Builtins \o <<Dot>>)

\* die_unless_hint_nonpep() of a tuple: every item is a plain class.
IsHintNonpepTuple(hint) ==
    \A i \in 1..Len(hint.v) : hint.v[i].t = "type" /\ ~hint.v[i].pep

\* dict.__setitem__ of a key not yet in the dictionary.
Store(d, k, v) == [x \in DOMAIN d \cup {k} |-> IF x = k THEN v ELSE d[x]]

\* Beartypistry.__setitem__() without the test of lines 489-494: the value
\* of an existing key is replaced.
SetItem_Overwrite(reg, hint_name, hint) ==
    IF hint_name.t # "str"
    THEN [reg |-> reg, exc |-> Raise(_BeartypeDecorBeartypistryException, "key not string")]
    ELSE IF hint.t \in {"type", "tuple"}
    THEN [reg |-> Store(reg, hint_name.v, hint), exc |-> NoExc]
    ELSE [reg |-> reg,
          exc |-> Raise(_BeartypeDecorBeartypistryException, "neither type nor tuple")]

\* Beartypistry.__setitem__() without the tests of lines 533-566: a tuple is
\* stored whatever its items and its key.
SetItem_AnyTuple(reg, hint_name, hint) ==
    IF hint_name.t # "str"
    THEN [reg |-> reg, exc |-> Raise(_BeartypeDecorBeartypistryException, "key not string")]
    ELSE IF hint_name.v \in DOMAIN reg
    THEN [reg |-> reg,
          exc |-> Raise(_BeartypeDecorBeartypistryException, "key already registered")]
    ELSE IF hint.t = "type"
    THEN IF /\ hint_name.v # get_object_classname(hint)
            /\ ~is_classname_builtin(get_object_classname(hint))
         THEN [reg |-> reg,
               exc |-> Raise(_BeartypeDecorBeartypistryException, "key not classname")]
         ELSE [reg |-> Store(reg, hint_name.v, hint), exc |-> NoExc]
    ELSE IF hint.t = "tuple"
    THEN [reg |-> Store(reg, hint_name.v, hint), exc |-> NoExc]
    ELSE [reg |-> reg,
          exc |-> Raise(_BeartypeDecorBeartypistryException, "neither type nor tuple")]

\* Beartypistry.__setitem__(), lines 478-576.
SetItem(reg, hint_name, hint) ==
    IF hint_name.t # "str"
    THEN [reg |-> reg, exc |-> Raise(_BeartypeDecorBeartypistryException, "key not string")]
    ELSE IF hint_name.v \in DOMAIN reg
    THEN [reg |-> reg,
          exc |-> Raise(_BeartypeDecorBeartypistryException, "key already registered")]
    ELSE IF hint.t = "type"
    THEN IF /\ hint_name.v # get_object_classname(hint)
            /\ ~is_classname_builtin(get_object_classname(hint))
         THEN [reg |-> reg,
               exc |-> Raise(_BeartypeDecorBeartypistryException, "key not classname")]
         ELSE [reg |-> Store(reg, hint_name.v, hint), exc |-> NoExc]
    ELSE IF hint.t = "tuple"
    THEN IF ~IsHintNonpepTuple(hint)
         THEN [reg |-> reg,
               exc |-> Raise(_BeartypeDecorBeartypistryException, "tuple not nonpep")]
         ELSE IF ~StartsWith(hint_name.v, _TYPISTRY_HINT_NAME_TUPLE_PREFIX)
         THEN [reg |-> reg,
               exc |-> Raise(_BeartypeDecorBeartypistryException, "key not prefixed")]
         ELSE [reg |-> Store(reg, hint_name.v, hint), exc |-> NoExc]
    ELSE [reg |-> reg,
          exc |-> Raise(_BeartypeDecorBeartypistryException, "neither type nor tuple")]

\* @callable_cached: a call whose arguments were passed before returns the
\* value returned then, without running the function.
IsCached(memo, args) == args \in DOMAIN memo
Cached(memo, args, ret) == Store(memo, args, ret)

\* The registry and the memoization caches a registrar reads and writes.
St == [reg |-> bear_typistry, mtype |-> memo_type, mtuple |-> memo_tuple]

Failed(st, exc) == [st |-> st, exc |-> exc, ret |-> None]

\* The body of register_typistry_type(), lines 180-213.
RegisterTypeBody(reg, hint) ==
    IF hint.t # "type"
    THEN [reg |-> reg, exc |-> Raise(_BeartypeDecorBeartypistryException, "not class"),
          ret |-> None]
    ELSE IF is_class_builtin(hint)
    THEN [reg |-> reg, exc |-> NoExc, ret |-> Str(get_object_class_basename(hint))]
    ELSE LET hint_classname == get_object_classname(hint)
             r == SetItem(reg, Str(hint_classname), hint)
         IN  IF r.exc # NoExc
             THEN [reg |-> reg, exc |-> r.exc, ret |-> None]
             ELSE [reg |-> r.reg, exc |-> NoExc, ret |-> Str(CodeFragment(hint_classname))]

\* @callable_cached register_typistry_type(), lines 136-213.
register_typistry_type(st, hint) ==
    IF IsCached(st.mtype, hint)
    THEN [st |-> st, exc |-> NoExc, ret |-> st.mtype[hint]]
    ELSE LET r == RegisterTypeBody(st.reg, hint)
         IN  IF r.exc # NoExc THEN Failed(st, r.exc)
             ELSE [st |-> [st EXCEPT !.reg = r.reg, !.mtype = Cached(st.mtype, hint, r.ret)],
                   exc |-> NoExc, ret |-> r.ret]

\* hash() of a class, and of a tuple of classes: it depends on the order of
\* the items and maps different tuples to the same value now and then.
ClassHash(cls) == CASE cls.id = "A" -> 1 [] cls.id = "B" -> 2 [] cls.id = "A2" -> 3 [] OTHER -> 4

RECURSIVE TupleHashFrom(_, _)
TupleHashFrom(items, i) ==
    IF i > Len(items) THEN 0
    ELSE (i * ClassHash(items[i]) + TupleHashFrom(items, i + 1)) % HashMod

TupleHash(items) == TupleHashFrom(items, 1)

\* str() of a natural number.
Digits == <<"0", "1", "2", "3", "4", "5", "6", "7", "8", "9">>
RECURSIVE IntToStr(_)
IntToStr(n) == IF n < 10 THEN <<Digits[n + 1]>> ELSE IntToStr(n \div 10) \o <<Digits[(n % 10) + 1]>>

Range(s) == {s[i] : i \in 1..Len(s)}

\* The tuples tuple(set(items)) can be: the items without duplicates, in any order.
SetOrders(items) ==
    {s \in SeqsUpTo(Range(items), Cardinality(Range(items))) :
        Len(s) = Cardinality(Range(items)) /\ Range(s) = Range(items)}

\* Lines 367-368 without the loop: the key is used as computed.
Disambiguate_Never(reg, hint_name) == hint_name

\* The loop of lines 367-368.
RECURSIVE Disambiguate(_, _)
Disambiguate(reg, hint_name) ==
    IF hint_name \in DOMAIN reg THEN Disambiguate(reg, hint_name \o <<"~">>) ELSE hint_name

\* The body of register_typistry_tuple() without the coercion through a set
\* of lines 342-348: the tuple is registered as passed.
RegisterTupleBody_NoDedupe(st, hint, is_types_unique, order) ==
    IF Len(hint.v) = 1
    THEN register_typistry_type(st, hint.v[1])
    ELSE LET hint_name == Disambiguate(st.reg,
                 _TYPISTRY_HINT_NAME_TUPLE_PREFIX \o IntToStr(TupleHash(hint.v)))
             r == SetItem(st.reg, Str(hint_name), hint)
         IN  IF r.exc # NoExc THEN Failed(st, r.exc)
             ELSE [st |-> [st EXCEPT !.reg = r.reg], exc |-> NoExc,
                   ret |-> Str(CodeFragment(hint_name))]

\* The body of register_typistry_tuple() without the test of lines 336-339:
\* a tuple of one item is registered as a tuple.
RegisterTupleBody_NoDegrade(st, hint, is_types_unique, order) ==
    IF hint.t # "tuple"
    THEN Failed(st, Raise(_BeartypeDecorBeartypistryException, "not tuple"))
    ELSE LET hint_uniq == IF ~is_types_unique THEN Tuple(order) ELSE hint
             hint_name == Disambiguate(st.reg,
                 _TYPISTRY_HINT_NAME_TUPLE_PREFIX \o IntToStr(TupleHash(hint_uniq.v)))
             r == SetItem(st.reg, Str(hint_name), hint_uniq)
         IN  IF r.exc # NoExc THEN Failed(st, r.exc)
             ELSE [st |-> [st EXCEPT !.reg = r.reg], exc |-> NoExc,
                   ret |-> Str(CodeFragment(hint_name))]

\* The body of register_typistry_tuple(), lines 323-377; order is the tuple
\* that tuple(set(hint)) makes.
RegisterTupleBody(st, hint, is_types_unique, order) ==
    IF hint.t # "tuple"
    THEN Failed(st, Raise(_BeartypeDecorBeartypistryException, "not tuple"))
    ELSE IF Len(hint.v) = 1
    THEN register_typistry_type(st, hint.v[1])
    ELSE LET hint_uniq == IF ~is_types_unique THEN Tuple(order) ELSE hint
             hint_name == Disambiguate(st.reg,
                 _TYPISTRY_HINT_NAME_TUPLE_PREFIX \o IntToStr(TupleHash(hint_uniq.v)))
             r == SetItem(st.reg, Str(hint_name), hint_uniq)
         IN  IF r.exc # NoExc THEN Failed(st, r.exc)
             ELSE [st |-> [st EXCEPT !.reg = r.reg], exc |-> NoExc,
                   ret |-> Str(CodeFragment(hint_name))]

\* @callable_cached register_typistry_tuple(), lines 216-377.
register_typistry_tuple(st, hint, is_types_unique, order) ==
    IF IsCached(st.mtuple, <<hint, is_types_unique>>)
    THEN [st |-> st, exc |-> NoExc, ret |-> st.mtuple[<<hint, is_types_unique>>]]
    ELSE LET r == RegisterTupleBody(st, hint, is_types_unique, order)
         IN  IF r.exc # NoExc THEN Failed(st, r.exc)
             ELSE [st |-> [r.st EXCEPT
                              !.mtuple = Cached(r.st.mtuple, <<hint, is_types_unique>>, r.ret)],
                   exc |-> NoExc, ret |-> r.ret]

\* die_unless_module_attr_name(): a "."-delimited identifier with a "." in it.
IsModuleAttrName(name) == is_identifier(name) /\ Len(Split(name)) >= 2

\* The body of register_typistry_forwardref(), lines 117-133.
RegisterForwardrefBody(hint_classname) ==
    IF ~IsModuleAttrName(hint_classname)
    THEN [exc |-> Raise(BeartypeDecorHintForwardRefException, "invalid name"), ret |-> None]
    ELSE [exc |-> NoExc, ret |-> Str(CodeFragment(hint_classname))]

\* str.rpartition('.') of a string with a "." in it: <<before, after>> the last ".".
RECURSIVE LastDot(_, _)
LastDot(s, i) == IF s[i] = Dot THEN i ELSE LastDot(s, i - 1)
RPartition(s) ==
    LET k == LastDot(s, Len(s)) IN <<SubSeq(s, 1, k - 1), SubSeq(s, k + 1, Len(s))>>

EnvModules == {<<"m">>}
EnvAttrs == {<<"A">>}

\* The exception the code at module scope of a module raises when the
\* module is imported: ImportError is the superclass of ModuleNotFoundError.
ImportError == "ImportError"
RaisingStatuses == {"bad", "bad import"}
ModuleExc(status) == IF status = "bad" THEN ValueError ELSE ImportError

\* import_module() with "except Exception" for the clause of line 222: every
\* exception of the import is converted.
import_module_WrapAll(module_name, exception_cls) ==
    IF module_name \notin DOMAIN modules \/ modules[module_name].status = "missing"
    THEN [exc |-> Raise(exception_cls, "module not found"), ret |-> None]
    ELSE IF modules[module_name].status \in RaisingStatuses
    THEN [exc |-> Raise(exception_cls, "module not found"), ret |-> None]
    ELSE [exc |-> NoExc, ret |-> modules[module_name]]

\* import_module(), lines 180-224.
import_module(module_name, exception_cls) ==
    IF module_name \notin DOMAIN modules \/ modules[module_name].status = "missing"
    THEN [exc |-> Raise(exception_cls, "module not found"), ret |-> None]
    ELSE IF modules[module_name].status \in RaisingStatuses
    THEN [exc |-> Raise(ModuleExc(modules[module_name].status), "raised by the module"),
          ret |-> None]
    ELSE [exc |-> NoExc, ret |-> modules[module_name]]

\* import_module_attr_or_none(), lines 292-364.
import_module_attr_or_none(module_attr_name, exception_cls) ==
    IF ~IsModuleAttrName(module_attr_name)
    THEN [exc |-> Raise(exception_cls, "invalid name"), ret |-> None]
    ELSE LET parts == RPartition(module_attr_name)
             module == import_module(parts[1], exception_cls)
         IN  IF module.exc # NoExc THEN module
             ELSE IF parts[2] \in DOMAIN module.ret.attrs
             THEN [exc |-> NoExc, ret |-> module.ret.attrs[parts[2]]]
             ELSE [exc |-> NoExc, ret |-> None]

\* import_module_attr(), lines 227-289.
import_module_attr(module_attr_name, exception_cls) ==
    LET module_attr == import_module_attr_or_none(module_attr_name, exception_cls)
    IN  IF module_attr.exc # NoExc THEN module_attr
        ELSE IF module_attr.ret = None
        THEN [exc |-> Raise(exception_cls, "not found"), ret |-> None]
        ELSE module_attr

\* Beartypistry.__missing__() without the test of lines 621-625.
Missing_NoClassCheck(hint_classname) ==
    import_module_attr(hint_classname, BeartypeCallHintForwardRefException)

\* Beartypistry.__missing__(), lines 579-632.
Missing(hint_classname) ==
    LET hint_class == import_module_attr(hint_classname, BeartypeCallHintForwardRefException)
    IN  IF hint_class.exc # NoExc THEN hint_class
        ELSE IF hint_class.ret.t # "type"
        THEN [exc |-> Raise(BeartypeCallHintForwardRefException, "not class"), ret |-> None]
        ELSE hint_class

\* bear_typistry[hint_name]: dict.__getitem__ returns the value of the key or,
\* for a key not in the dictionary, what __missing__() returns or raises; it
\* stores nothing.
GetItem(reg, hint_name) ==
    IF hint_name \in DOMAIN reg
    THEN [exc |-> NoExc, ret |-> reg[hint_name], missing |-> FALSE]
    ELSE [exc |-> Missing(hint_name).exc, ret |-> Missing(hint_name).ret, missing |-> TRUE]

ForwardrefNames ==
    {<<"m", ".", "A">>, <<"m", ".", "B">>, <<"n", ".", "A">>, <<"A">>}

TupleArgs == {Tuple(s) : s \in SeqsUpTo(TupleClasses, MaxTupleLen) \ {<<>>}}

\* is_types_unique is True only if the caller guarantees the tuple to contain
\* no duplicates (lines 279-281).
TupleCallArgs ==
    {<<hint, FALSE>> : hint \in TupleArgs}
        \cup {<<hint, TRUE>> : hint \in {h \in TupleArgs : Cardinality(Range(h.v)) = Len(h.v)}}

\* --------------------------------------------------------- typistry actions
CallRegisterType(hint) ==
    LET r == register_typistry_type(St, hint)
    IN  /\ tcalls < MaxTypistryCalls
        /\ tcalls' = tcalls + 1
        /\ bear_typistry' = r.st.reg
        /\ memo_type' = r.st.mtype
        /\ tlast' = [op |-> "register_typistry_type", arg |-> hint, exc |-> r.exc,
                     ret |-> r.ret, missing |-> FALSE,
                     added |-> Cardinality(DOMAIN r.st.reg) - Cardinality(DOMAIN bear_typistry)]
        /\ UNCHANGED <<memo_tuple, memo_forwardref, modules>>

CallRegisterTuple(hint, is_types_unique) ==
    \E order \in SetOrders(hint.v) :
        LET r == register_typistry_tuple(St, hint, is_types_unique, order)
        IN  /\ tcalls < MaxTypistryCalls
            /\ tcalls' = tcalls + 1
            /\ bear_typistry' = r.st.reg
            /\ memo_type' = r.st.mtype
            /\ memo_tuple' = r.st.mtuple
            /\ tlast' = [op |-> "register_typistry_tuple",
                         arg |-> [hint |-> hint, is_types_unique |-> is_types_unique],
                         exc |-> r.exc, ret |-> r.ret, missing |-> FALSE,
                         added |-> Cardinality(DOMAIN r.st.reg)
                                      - Cardinality(DOMAIN bear_typistry)]
            /\ UNCHANGED <<memo_forwardref, modules>>

CallRegisterForwardref(hint_classname) ==
    LET r == IF IsCached(memo_forwardref, hint_classname)
             THEN [exc |-> NoExc, ret |-> memo_forwardref[hint_classname]]
             ELSE RegisterForwardrefBody(hint_classname)
    IN  /\ tcalls < MaxTypistryCalls
        /\ tcalls' = tcalls + 1
        /\ memo_forwardref' =
              IF r.exc = NoExc /\ ~IsCached(memo_forwardref, hint_classname)
              THEN Cached(memo_forwardref, hint_classname, r.ret) ELSE memo_forwardref
        /\ tlast' = [op |-> "register_typistry_forwardref", arg |-> Str(hint_classname),
                     exc |-> r.exc, ret |-> r.ret, missing |-> FALSE, added |-> 0]
        /\ UNCHANGED <<bear_typistry, memo_type, memo_tuple, modules>>

\* bear_typistry[hint_name], as evaluated by a generated wrapper.
CallGetItem(hint_name) ==
    LET r == GetItem(bear_typistry, hint_name)
    IN  /\ tlast' = [op |-> "getitem", arg |-> Str(hint_name), exc |-> r.exc,
                     ret |-> r.ret, missing |-> r.missing, added |-> 0]
        /\ UNCHANGED <<bear_typistry, memo_type, memo_tuple, memo_forwardref, modules, tcalls>>

\* bear_typistry[hint_name] = hint, by a caller of the registry.
CallSetItem(hint_name, hint) ==
    LET r == SetItem(bear_typistry, hint_name, hint)
    IN  /\ tcalls < MaxTypistryCalls
        /\ tcalls' = tcalls + 1
        /\ bear_typistry' = r.reg
        /\ tlast' = [op |-> "setitem", arg |-> [key |-> hint_name, value |-> hint],
                     exc |-> r.exc, ret |-> None, missing |-> FALSE,
                     added |-> Cardinality(DOMAIN r.reg) - Cardinality(DOMAIN bear_typistry)]
        /\ UNCHANGED <<memo_type, memo_tuple, memo_forwardref, modules>>

\* A module becomes importable, or starts to raise when it is imported.
InstallModule(module_name, status) ==
    /\ modules[module_name].status # status
    /\ modules' = [modules EXCEPT ![module_name].status = status]
    /\ UNCHANGED <<bear_typistry, memo_type, memo_tuple, memo_forwardref, tlast, tcalls>>

\* An importable module binds one of its attributes (a class statement or an
\* assignment at module scope).
DefineAttr(module_name, attr, value) ==
    /\ modules[module_name].status = "ok"
    /\ modules[module_name].attrs[attr] # value
    /\ modules' = [modules EXCEPT ![module_name].attrs[attr] = value]
    /\ UNCHANGED <<bear_typistry, memo_type, memo_tuple, memo_forwardref, tlast, tcalls>>

EmptyDict == [x \in {} |-> None]

InitTypistry ==
    /\ bear_typistry = EmptyDict
    /\ memo_type = EmptyDict
    /\ memo_tuple = EmptyDict
    /\ memo_forwardref = EmptyDict
    /\ modules = [m \in EnvModules |-> [status |-> "missing", attrs |-> [a \in EnvAttrs |-> None]]]
    /\ tlast = [op |-> "none", arg |-> None, exc |-> NoExc, ret |-> None,
                missing |-> FALSE, added |-> 0]
    /\ tcalls = 0

NextTypistry ==
    \/ \E hint \in Classes : CallRegisterType(hint)
    \/ \E hint_classname \in ForwardrefNames : CallRegisterForwardref(hint_classname)
    \/ \E hint_name \in ForwardrefNames \cup DOMAIN bear_typistry : CallGetItem(hint_name)
    \/ \E m \in EnvModules, status \in {"ok"} \cup RaisingStatuses : InstallModule(m, status)
    \/ \E m \in EnvModules, a \in EnvAttrs, value \in {ClsA, NonClass} : DefineAttr(m, a, value)

NextTuples ==
    \E args \in TupleCallArgs : CallRegisterTuple(args[1], args[2])

\* The keys and values callers of the registry store directly, and the
\* tuples they register next to it.
StoreKeys == {Str(<<"m", ".", "A">>), Str(<<"+", "2">>), Str(<<"i", "n", "t">>), NotStr}
StoreValues ==
    {ClsA, ClsA2, ClsInt, NonClass,
     Tuple(<<ClsA, ClsB>>), Tuple(<<ClsA, ClsPep>>), Tuple(<<ClsA, NonClass>>)}
StoreTupleCallArgs == {<<Tuple(<<ClsA, ClsB>>), TRUE>>, <<Tuple(<<ClsB, ClsA>>), FALSE>>}

NextStore ==
    \/ NextTypistry
    \/ \E hint_name \in StoreKeys, hint \in StoreValues : CallSetItem(hint_name, hint)
    \/ \E args \in StoreTupleCallArgs : CallRegisterTuple(args[1], args[2])

\* ------------------------------------------------------------- AST rewriter
\* AST nodes are records: kind is the node class, loc stands for the source
\* code metadata (lineno, col_offset, end_lineno, end_col_offset) and is NoLoc
\* for a node without these attributes, as ast.Module nodes are when parsed.
NoLoc == [t |-> "NoAttr"]
Loc(n) == [t |-> "loc", lineno |-> n]

Module(body, loc) == [kind |-> "Module", body |-> body, loc |-> loc]
Expr(value, loc) == [kind |-> "Expr", value |-> value, loc |-> loc]
ImportFrom(module, names, loc) ==
    [kind |-> "ImportFrom", module |-> module, names |-> names, loc |-> loc]
Pass(loc) == [kind |-> "Pass", loc |-> loc]
Name(id, loc) == [kind |-> "Name", id |-> id, loc |-> loc]
FunctionDef(returns, args, kwonlyargs, decorator_list, body, loc) ==
    [kind |-> "FunctionDef", returns |-> returns,
     args |-> [args |-> args, kwonlyargs |-> kwonlyargs],
     decorator_list |-> decorator_list, body |-> body, loc |-> loc]

ClassDef(body, loc) == [kind |-> "ClassDef", body |-> body, loc |-> loc]

\* An annotation is None or the expression of a type hint.
Annotations == {None, Name("int", Loc(0))}

\* Function definitions whose body defines no function.
LeafFunctionDefs ==
    {FunctionDef(returns, args, kwonlyargs, decorator_list, <<Pass(Loc(0))>>, Loc(0)) :
        returns \in Annotations,
        args \in SeqsUpTo(Annotations, MaxArgs),
        kwonlyargs \in {<<>>, <<Name("int", Loc(0))>>},
        decorator_list \in {<<>>, <<Name("property", Loc(0))>>}}

\* A typed and an untyped function definition, and definitions that enclose
\* them: a class with a method, an untyped function with a typed function in
\* its body, a typed function with a class in its body whose method is an
\* untyped function with a typed function in its body.
TypedDef == FunctionDef(None, <<Name("int", Loc(0))>>, <<>>, <<>>, <<Pass(Loc(0))>>, Loc(0))
UntypedDef == FunctionDef(None, <<None>>, <<>>, <<>>, <<Pass(Loc(0))>>, Loc(0))
ClassWithMethod == ClassDef(<<Pass(Loc(0)), TypedDef>>, Loc(0))
UntypedEnclosingTyped == [UntypedDef EXCEPT !.body = <<TypedDef>>]
DeeplyNested ==
    [TypedDef EXCEPT !.body = <<UntypedDef, ClassDef(<<UntypedEnclosingTyped>>, Loc(0))>>]

\* Function definitions, with and without a function defined in their body.
FunctionDefs ==
    LeafFunctionDefs \cup
    {[f EXCEPT !.body = <<g>>] : f \in LeafFunctionDefs, g \in LeafFunctionDefs}

\* The statements of the modules handed to the transformer.
ModuleStatements ==
    {Expr("Str", Loc(0)), ImportFrom("__future__", <<"annotations">>, Loc(0)),
     ImportFrom("os", <<"path">>, Loc(0)), Pass(Loc(0)),
     UntypedDef, TypedDef, ClassWithMethod, UntypedEnclosingTyped, DeeplyNested}

\* Each statement of a parsed module carries the line it starts at.
Located(body) == [i \in DOMAIN body |-> [body[i] EXCEPT !.loc = Loc(i)]]

\* Parsed modules have no metadata; a caller may have set it to some line.
Modules ==
    {Module(Located(body), loc) :
        body \in SeqsUpTo(ModuleStatements, MaxBody), loc \in {NoLoc, Loc(1)}}

\* _copy_node_code_metadata(), lines 250-294: reading an attribute node_src
\* does not have raises AttributeError.
_copy_node_code_metadata(node_src, node_trg) ==
    IF node_src.loc = NoLoc
    THEN [exc |-> Raise("AttributeError", "lineno"), node |-> node_trg]
    ELSE [exc |-> NoExc, node |-> [node_trg EXCEPT !.loc = node_src.loc]]

\* The test of lines 107-132.
IsDocstringOrFutureImport(module_child) ==
    \/ module_child.kind = "Expr" /\ module_child.value = "Str"
    \/ module_child.kind = "ImportFrom" /\ module_child.module = "__future__"

\* The loop of lines 105-134 from the i-th child on: both a child that passes
\* the test (continue) and one that does not go on to the next child, so the
\* index left is that of the last child.
RECURSIVE FindImportIndex(_, _, _)
FindImportIndex(body, i, import_beartype_index) ==
    IF i > Len(body) THEN import_beartype_index
    ELSE IF IsDocstringOrFutureImport(body[i])
         THEN FindImportIndex(body, i + 1, i - 1)
         ELSE FindImportIndex(body, i + 1, i - 1)

\* list.insert(index, item) for a 0-based index within the list.
Insert(list, index, item) ==
    SubSeq(list, 1, index) \o <<item>> \o SubSeq(list, index + 1, Len(list))

RECURSIVE visit(_)
RECURSIVE generic_visit(_)
RECURSIVE visit_FunctionDef(_)

\* NodeTransformer.generic_visit(): every child statement is replaced by its
\* visit.
generic_visit(node) ==
    IF "body" \in DOMAIN node
    THEN [node EXCEPT !.body = [i \in DOMAIN node.body |-> visit(node.body[i])]]
    ELSE node

\* visit_FunctionDef() with the loop of lines 203-206 over all parameters,
\* the keyword-only ones included.
visit_FunctionDef_AnyParameter(node) ==
    LET is_return_typed == node.returns # None
        is_args_typed ==
            /\ ~is_return_typed
            /\ \/ \E i \in DOMAIN node.args.args : node.args.args[i] # None
               \/ \E i \in DOMAIN node.args.kwonlyargs : node.args.kwonlyargs[i] # None
        decorate_callable ==
            _copy_node_code_metadata(node, Name("beartype_object_safe", NoLoc)).node
    IN  IF is_return_typed \/ is_args_typed
        THEN generic_visit(
                 [node EXCEPT !.decorator_list = Append(@, decorate_callable)])
        ELSE generic_visit(node)

\* visit_FunctionDef() with the call of line 243 made for a typed function
\* only: the body of an untyped function is not visited.
visit_FunctionDef_SkipUntyped(node) ==
    LET is_return_typed == node.returns # None
        is_args_typed == /\ ~is_return_typed
                         /\ \E i \in DOMAIN node.args.args : node.args.args[i] # None
        decorate_callable ==
            _copy_node_code_metadata(node, Name("beartype_object_safe", NoLoc)).node
    IN  IF is_return_typed \/ is_args_typed
        THEN generic_visit(
                 [node EXCEPT !.decorator_list = Append(@, decorate_callable)])
        ELSE node

\* visit_FunctionDef(), lines 170-246. Every function definition of the
\* trees handed in has metadata, so the copy of line 225 does not raise.
visit_FunctionDef(node) ==
    LET is_return_typed == node.returns # None
        is_args_typed == /\ ~is_return_typed
                         /\ \E i \in DOMAIN node.args.args : node.args.args[i] # None
        decorate_callable ==
            _copy_node_code_metadata(node, Name("beartype_object_safe", NoLoc)).node
    IN  IF is_return_typed \/ is_args_typed
        THEN generic_visit(
                 [node EXCEPT !.decorator_list = Append(@, decorate_callable)])
        ELSE generic_visit(node)

\* NodeVisitor.visit(): the method of the class of the node, generic_visit()
\* for a class without one.
visit(node) ==
    IF node.kind = "FunctionDef" THEN visit_FunctionDef(node) ELSE generic_visit(node)

\* visit_Module() without the test of line 141: the import is made and
\* inserted also when the loop found no child.
visit_Module_AlwaysInsert(node) ==
    LET import_beartype_index == FindImportIndex(node.body, 1, -1)
        import_beartype ==
            _copy_node_code_metadata(node,
                ImportFrom("beartype._decor.decorcore", <<"beartype_object_safe">>, NoLoc))
    IN  IF import_beartype.exc # NoExc
        THEN [exc |-> import_beartype.exc, node |-> node]
        ELSE [exc |-> NoExc,
              node |-> generic_visit(
                  [node EXCEPT !.body =
                      Insert(node.body,
                             IF import_beartype_index = -1 THEN 0 ELSE import_beartype_index,
                             import_beartype.node)])]

\* visit_Module(), lines 65-167.
visit_Module(node) ==
    LET import_beartype_index == FindImportIndex(node.body, 1, -1)
    IN  IF import_beartype_index # -1
        THEN LET import_beartype ==
                     _copy_node_code_metadata(node,
                         ImportFrom("beartype._decor.decorcore",
                                    <<"beartype_object_safe">>, NoLoc))
             IN  IF import_beartype.exc # NoExc
                 THEN [exc |-> import_beartype.exc, node |-> node]
                 ELSE [exc |-> NoExc,
                       node |-> generic_visit(
                           [node EXCEPT !.body = Insert(node.body, import_beartype_index,
                                                        import_beartype.node)])]
        ELSE [exc |-> NoExc, node |-> generic_visit(node)]

\* BeartypeNodeTransformer().visit(tree) of a module.
VisitModule ==
    /\ nvisits < MaxVisits
    /\ tree.kind = "Module"
    /\ LET r == visit_Module(tree)
       IN  /\ tree' = r.node
           /\ alast' = [op |-> "visit_Module", exc |-> r.exc]
    /\ source' = tree
    /\ nvisits' = nvisits + 1

\* BeartypeNodeTransformer().visit(tree) of a function definition.
VisitFunctionDef ==
    /\ nvisits < MaxVisits
    /\ tree.kind = "FunctionDef"
    /\ tree' = visit_FunctionDef(tree)
    /\ alast' = [op |-> "visit_FunctionDef", exc |-> NoExc]
    /\ source' = tree
    /\ nvisits' = nvisits + 1

\* No tree is handed to the transformer.
NoTree ==
    /\ tree = Module(<<>>, NoLoc)
    /\ source = tree
    /\ alast = [op |-> "none", exc |-> NoExc]
    /\ nvisits = 0

InitAst ==
    /\ tree \in Modules \cup FunctionDefs
    /\ source = tree
    /\ alast = [op |-> "none", exc |-> NoExc]
    /\ nvisits = 0

NextAst == VisitModule \/ VisitFunctionDef

\* --------------------------------------------- package cache under threads
\* The cache as the objects it is made of: every node is a
\* _PackageBasenameToSubpackagesDict with an identity, its items (kids) and
\* its conf_if_registered; node 0 is _package_basename_to_subpackages.
Threads == 1..NumThreads
NoNode == -1
NewNode == [kids |-> <<>>, conf |-> None]

\* The calls the threads make.
ThreadNames == {<<"a">>, <<"a", ".", "a">>}
ThreadCalls ==
    {[op |-> "register_packages", package_names |-> pn, conf |-> conf] :
        pn \in {Str(n) : n \in ThreadNames}
                 \cup {Tuple(<<Str(<<"a", ".", "a">>), Str(<<"a">>)>>),
                       Iter(<<Str(<<"a">>)>>), Str(<<".">>)},
        conf \in Confs}
    \cup {[op |-> "is_package_registered", package_names |-> Str(n), conf |-> None] :
            n \in ThreadNames}
    \cup {[op |-> "is_packages_registered_any", package_names |-> None, conf |-> None]}

Idle == [pc |-> "idle", call |-> None, names |-> <<>>, basenames |-> <<>>,
         curr |-> 0, sub |-> NoNode, exc |-> NoExc, ret |-> None,
         expect |-> [exc |-> NoExc, ret |-> None]]

\* The nested mapping the objects reachable from node id make, as the cache
\* of the calls made one by one: path -> conf_if_registered.
RECURSIVE PathsFrom(_, _)
PathsFrom(id, path) ==
    {<<path, id>>} \cup
    UNION {PathsFrom(nodes[id].kids[b], Append(path, b)) : b \in DOMAIN nodes[id].kids}

AbsCache ==
    LET reached == PathsFrom(0, Root)
    IN  [p \in {x[1] : x \in reached} |->
            nodes[(CHOOSE x \in reached : x[1] = p)[2]].conf]

\* What the call returns or raises, and the cache it leaves, when made alone.
Alone(c, call) ==
    CASE call.op = "register_packages" ->
            LET r == register_packages(c, call.package_names, call.conf)
            IN  [cache |-> r.cache, exc |-> r.exc, ret |-> None]
      [] call.op = "is_package_registered" ->
            [cache |-> c, exc |-> NoExc,
             ret |-> PyBool(is_package_registered_in(c, call.package_names.v))]
      [] call.op = "is_packages_registered_any" ->
            [cache |-> c, exc |-> NoExc, ret |-> PyBool(\E p \in DOMAIN c : Len(p) = 1)]

\* "with _claw_lock:" entered by a thread that then starts its call.
Acquire(t, call) ==
    /\ thr[t].pc = "idle"
    /\ claw_lock = 0
    /\ claw_lock' = t
    /\ thr' = [thr EXCEPT ![t] =
                  [Idle EXCEPT !.pc = call.op, !.call = call,
                               !.expect = [exc |-> Alone(lin, call).exc,
                                           ret |-> Alone(lin, call).ret]]]
    /\ lin' = Alone(lin, call).cache
    /\ UNCHANGED nodes

\* "with _claw_lock:" left after the call returned or raised.
Release(t) ==
    /\ thr[t].pc = "return"
    /\ claw_lock = t
    /\ claw_lock' = 0
    /\ thr' = [thr EXCEPT ![t].pc = "done"]
    /\ UNCHANGED <<nodes, lin>>

\* register_packages(), lines 212-253: the validation.
RegisterValidate(t) ==
    /\ thr[t].pc = "register_packages"
    /\ LET call == thr[t].call
           exc == Validate(call.package_names, call.conf)
       IN  thr' = [thr EXCEPT ![t] =
               IF exc # NoExc
               THEN [@ EXCEPT !.pc = "return", !.exc = exc]
               ELSE [@ EXCEPT !.pc = "name",
                              !.names = CASE call.package_names.t = "str" ->
                                                <<call.package_names>>
                                          [] call.package_names.t = "tuple" ->
                                                call.package_names.v
                                          [] call.package_names.t = "iterator" -> <<>>]]
    /\ UNCHANGED <<nodes, claw_lock, lin>>

\* Lines 257-274: the next package name, if any.
RegisterNextName(t) ==
    /\ thr[t].pc = "name"
    /\ thr' = [thr EXCEPT ![t] =
           IF thr[t].names = <<>>
           THEN [@ EXCEPT !.pc = "return"]
           ELSE [@ EXCEPT !.pc = "get", !.basenames = Split(Head(thr[t].names).v),
                          !.curr = 0]]
    /\ UNCHANGED <<nodes, claw_lock, lin>>

\* Lines 278-284: the subcache of the next basename is looked up.
RegisterGet(t) ==
    /\ thr[t].pc = "get"
    /\ thr' = [thr EXCEPT ![t] =
           IF thr[t].basenames = <<>>
           THEN [@ EXCEPT !.pc = "conf"]
           ELSE LET kids == nodes[thr[t].curr].kids
                    b == Head(thr[t].basenames)
                IN  [@ EXCEPT !.pc = "put",
                              !.sub = IF b \in DOMAIN kids THEN kids[b] ELSE NoNode]]
    /\ UNCHANGED <<nodes, claw_lock, lin>>

\* Lines 297-305 with a new subcache assigned whatever the lookup found.
RegisterPut_AlwaysNew(t) ==
    /\ thr[t].pc = "put"
    /\ LET b == Head(thr[t].basenames)
           new == Cardinality(DOMAIN nodes)
       IN  /\ nodes' = [id \in DOMAIN nodes \cup {new} |->
                          IF id = new THEN NewNode
                          ELSE IF id = thr[t].curr
                          THEN [nodes[id] EXCEPT !.kids = Store(@, b, new)]
                          ELSE nodes[id]]
           /\ thr' = [thr EXCEPT ![t].pc = "get", ![t].curr = new, ![t].sub = new,
                                 ![t].basenames = Tail(@)]
    /\ UNCHANGED <<claw_lock, lin>>

\* Lines 297-305: a new subcache is assigned if the lookup found none, and
\* the walk descends.
RegisterPut(t) ==
    /\ thr[t].pc = "put"
    /\ LET b == Head(thr[t].basenames)
           new == Cardinality(DOMAIN nodes)
       IN  IF thr[t].sub = NoNode
           THEN /\ nodes' = [id \in DOMAIN nodes \cup {new} |->
                               IF id = new THEN NewNode
                               ELSE IF id = thr[t].curr
                               THEN [nodes[id] EXCEPT !.kids = Store(@, b, new)]
                               ELSE nodes[id]]
                /\ thr' = [thr EXCEPT ![t].pc = "get", ![t].curr = new, ![t].sub = new,
                                      ![t].basenames = Tail(@)]
           ELSE /\ nodes' = nodes
                /\ thr' = [thr EXCEPT ![t].pc = "get", ![t].curr = thr[t].sub,
                                      ![t].basenames = Tail(@)]
    /\ UNCHANGED <<claw_lock, lin>>

\* Lines 314-334: the configuration of the terminal subcache is read.
RegisterConfRead(t) ==
    /\ thr[t].pc = "conf"
    /\ LET conf_curr == nodes[thr[t].curr].conf
       IN  thr' = [thr EXCEPT ![t] =
               IF conf_curr = None THEN [@ EXCEPT !.pc = "conf write"]
               ELSE IF conf_curr # thr[t].call.conf
               THEN [@ EXCEPT !.pc = "return",
                              !.exc = Raise(BeartypeClawRegistrationException,
                                            "previously registered")]
               ELSE [@ EXCEPT !.pc = "name", !.names = Tail(@)]]
    /\ UNCHANGED <<nodes, claw_lock, lin>>

\* Line 315: the configuration is assigned.
RegisterConfWrite(t) ==
    /\ thr[t].pc = "conf write"
    /\ nodes' = [nodes EXCEPT ![thr[t].curr].conf = thr[t].call.conf]
    /\ thr' = [thr EXCEPT ![t].pc = "name", ![t].names = Tail(@)]
    /\ UNCHANGED <<claw_lock, lin>>

\* is_package_registered(), lines 62-68: the configuration of the root cache.
QueryRoot(t) ==
    /\ thr[t].pc = "is_package_registered"
    /\ thr' = [thr EXCEPT ![t] =
           IF nodes[0].conf # None
           THEN [@ EXCEPT !.pc = "return", !.ret = True]
           ELSE [@ EXCEPT !.pc = "walk", !.curr = 0,
                          !.basenames = Split(thr[t].call.package_names.v)]]
    /\ UNCHANGED <<nodes, claw_lock, lin>>

\* Lines 89-116: one iteration of the walk, or its end.
QueryWalk(t) ==
    /\ thr[t].pc = "walk"
    /\ thr' = [thr EXCEPT ![t] =
           IF thr[t].basenames = <<>>
           THEN [@ EXCEPT !.pc = "return", !.ret = False]
           ELSE LET kids == nodes[thr[t].curr].kids
                    b == Head(thr[t].basenames)
                IN  IF b \notin DOMAIN kids
                    THEN [@ EXCEPT !.pc = "return", !.ret = False]
                    ELSE IF nodes[0].conf # None
                    THEN [@ EXCEPT !.pc = "return", !.ret = True]
                    ELSE [@ EXCEPT !.curr = kids[b], !.basenames = Tail(@)]]
    /\ UNCHANGED <<nodes, claw_lock, lin>>

\* is_packages_registered_any(), lines 120-141.
QueryAny(t) ==
    /\ thr[t].pc = "is_packages_registered_any"
    /\ thr' = [thr EXCEPT ![t].pc = "return",
                          ![t].ret = PyBool(DOMAIN nodes[0].kids # {})]
    /\ UNCHANGED <<nodes, claw_lock, lin>>

\* No thread calls the package cache.
NoThreads ==
    /\ nodes = [id \in {0} |-> NewNode]
    /\ claw_lock = 0
    /\ thr = [t \in Threads |-> Idle]
    /\ lin = [p \in {Root} |-> None]

NextLocked ==
    \E t \in Threads :
        \/ \E call \in ThreadCalls : Acquire(t, call)
        \/ RegisterValidate(t)
        \/ RegisterNextName(t)
        \/ RegisterGet(t)
        \/ RegisterPut(t)
        \/ RegisterConfRead(t)
        \/ RegisterConfWrite(t)
        \/ QueryRoot(t)
        \/ QueryWalk(t)
        \/ QueryAny(t)
        \/ Release(t)

\* ------------------------------------- package cache without the lock
\* The same calls made by threads that do not enter "with _claw_lock:": the
\* functions of the package cache take no lock themselves.
UnlockedCalls ==
    {[op |-> "register_packages", package_names |-> Str(<<"a">>), conf |-> C1],
     [op |-> "register_packages",
      package_names |-> Tuple(<<Str(<<"a", ".", "a">>), Str(<<"a">>)>>), conf |-> C2],
     [op |-> "is_package_registered", package_names |-> Str(<<"a">>), conf |-> None],
     [op |-> "is_packages_registered_any", package_names |-> None, conf |-> None]}

Start(t, call) ==
    /\ thr[t].pc = "idle"
    /\ thr' = [thr EXCEPT ![t] = [Idle EXCEPT !.pc = call.op, !.call = call]]
    /\ UNCHANGED <<nodes, claw_lock, lin>>

\* The call returned or raised.
Finish(t) ==
    /\ thr[t].pc = "return"
    /\ thr' = [thr EXCEPT ![t].pc = "done"]
    /\ UNCHANGED <<nodes, claw_lock, lin>>

NextUnlocked ==
    \E t \in Threads :
        \/ \E call \in UnlockedCalls : Start(t, call)
        \/ RegisterValidate(t)
        \/ RegisterNextName(t)
        \/ RegisterGet(t)
        \/ RegisterPut(t)
        \/ RegisterConfRead(t)
        \/ RegisterConfWrite(t)
        \/ QueryRoot(t)
        \/ QueryWalk(t)
        \/ QueryAny(t)
        \/ Finish(t)

\* ------------------------------------------ registrars called by threads
\* Threads that call the memoized registrars with no lock around the calls:
\* neither the registrars nor the registry take one. A call is the lookup of
\* the arguments in the memoization cache, then the body of the registrar,
\* then the store of the value returned in the memoization cache.
RacingTuples == {Tuple(<<ClsA, ClsB>>), Tuple(<<ClsB, ClsA>>)}

RacingCalls ==
    {[op |-> "register_typistry_type", hint |-> h] : h \in TupleClasses}
        \cup {[op |-> "register_typistry_tuple", hint |-> h] : h \in RacingTuples}

RegistrarIdle == [pc |-> "idle", call |-> None, exc |-> NoExc, ret |-> None]

\* The memoization cache of the registrar of a call, and the arguments the
\* call is memoized by (is_types_unique is passed as True).
MemoOf(call) == IF call.op = "register_typistry_type" THEN memo_type ELSE memo_tuple
MemoArgs(call) == IF call.op = "register_typistry_type" THEN call.hint ELSE <<call.hint, TRUE>>

\* A thread calls a registrar.
RegistrarCall(t, call) ==
    /\ rthr[t].pc = "idle"
    /\ rthr' = [rthr EXCEPT ![t] = [RegistrarIdle EXCEPT !.pc = "lookup", !.call = call]]
    /\ UNCHANGED <<bear_typistry, memo_type, memo_tuple>>

\* @callable_cached: the arguments are looked up; the value memoized for
\* them is returned, or the body is called.
MemoLookup(t) ==
    /\ rthr[t].pc = "lookup"
    /\ LET call == rthr[t].call
       IN  rthr' = [rthr EXCEPT ![t] =
               IF IsCached(MemoOf(call), MemoArgs(call))
               THEN [@ EXCEPT !.pc = "done", !.ret = MemoOf(call)[MemoArgs(call)]]
               ELSE [@ EXCEPT !.pc = "body"]]
    /\ UNCHANGED <<bear_typistry, memo_type, memo_tuple>>

\* The body of the registrar, on the registry as it is by now. An exception
\* leaves the wrapper: nothing is memoized.
RegistrarBody(t) ==
    /\ rthr[t].pc = "body"
    /\ LET call == rthr[t].call
           r == IF call.op = "register_typistry_type"
                THEN RegisterTypeBody(bear_typistry, call.hint)
                ELSE LET b == RegisterTupleBody(St, call.hint, TRUE, call.hint.v)
                     IN  [reg |-> b.st.reg, exc |-> b.exc, ret |-> b.ret]
       IN  /\ bear_typistry' = r.reg
           /\ rthr' = [rthr EXCEPT ![t] =
                  IF r.exc # NoExc
                  THEN [@ EXCEPT !.pc = "done", !.exc = r.exc]
                  ELSE [@ EXCEPT !.pc = "store", !.ret = r.ret]]
    /\ UNCHANGED <<memo_type, memo_tuple>>

\* @callable_cached: the value the body returned is memoized and returned.
MemoStore(t) ==
    /\ rthr[t].pc = "store"
    /\ LET call == rthr[t].call
           memo == Cached(MemoOf(call), MemoArgs(call), rthr[t].ret)
       IN  IF call.op = "register_typistry_type"
           THEN memo_type' = memo /\ UNCHANGED memo_tuple
           ELSE memo_tuple' = memo /\ UNCHANGED memo_type
    /\ rthr' = [rthr EXCEPT ![t].pc = "done"]
    /\ UNCHANGED bear_typistry

NoRegistrars == rthr = [t \in Threads |-> RegistrarIdle]

NextRacing ==
    \E t \in Threads :
        \/ \E call \in RacingCalls : RegistrarCall(t, call)
        \/ MemoLookup(t)
        \/ RegistrarBody(t)
        \/ MemoStore(t)

\* ------------------------------------------------------------ specifications
Init == InitCache /\ InitTypistry /\ NoTree /\ NoThreads /\ NoRegistrars

SpecCache == Init /\ [][NextCache /\ UNCHANGED <<tvars, avars, lvars, rvars>>]_vars

SpecTypistry == Init /\ [][NextTypistry /\ UNCHANGED <<cvars, avars, lvars, rvars>>]_vars

SpecTuples == Init /\ [][NextTuples /\ UNCHANGED <<cvars, avars, lvars, rvars>>]_vars

SpecStore == Init /\ [][NextStore /\ UNCHANGED <<cvars, avars, lvars, rvars>>]_vars

\* A tree is handed to the transformer; cache and registry are as constructed.
InitTree == InitCache /\ InitTypistry /\ InitAst /\ NoThreads /\ NoRegistrars

SpecAst == InitTree /\ [][NextAst /\ UNCHANGED <<cvars, tvars, lvars, rvars>>]_vars

SpecLocked == Init /\ [][NextLocked /\ UNCHANGED <<cvars, tvars, avars, rvars>>]_vars

SpecUnlocked == Init /\ [][NextUnlocked /\ UNCHANGED <<cvars, tvars, avars, rvars>>]_vars

SpecRacing ==
    Init /\ [][NextRacing /\ UNCHANGED <<cvars, avars, lvars,
                                          memo_forwardref, modules, tlast, tcalls>>]_vars

\* ------------------------------------------------------- package cache claims
\* p is a segment-wise prefix of x (p itself included).
IsSegmentPrefix(p, x) == Len(p) <= Len(x) /\ SubSeq(x, 1, Len(p)) = p

\* The package names register_packages() accepts.
ValidNames == {n \in Names : is_identifier(n)}

\* The two ways of passing one package name.
OneName(n) == {Str(n), Tuple(<<Str(n)>>)}

\* C1: with the root scope unconfigured, every name that has a registered
\* name as a segment-wise prefix (the registered name included) is reported
\* as registered by is_package_registered().
C1_ScopeContainment ==
    \A n \in ValidNames :
        (cache[Root] = None /\ Split(n) \in DOMAIN cache /\ cache[Split(n)] # None)
        => \A x \in QueryNames :
              IsSegmentPrefix(Split(n), Split(x)) => is_package_registered(x)

\* C7: in every reachable state, registering an already registered name with
\* a different configuration raises BeartypeClawRegistrationException and the
\* node keeps its configuration.
C7_ConflictRejection ==
    \A n \in ValidNames, conf \in Confs :
        (Split(n) \in DOMAIN cache /\ cache[Split(n)] \notin {None, conf})
        => \A pn \in OneName(n) :
              LET r == register_packages(cache, pn, conf)
              IN  /\ r.exc.cls = BeartypeClawRegistrationException
                  /\ Split(n) \in DOMAIN r.cache
                  /\ r.cache[Split(n)] = cache[Split(n)]

\* C7 witness: a registration was rejected as a conflict and a configured
\* node is in the cache.
C7_Witness ==
    /\ clast.op = "register_packages"
    /\ clast.exc = Raise(BeartypeClawRegistrationException, "previously registered")
    /\ \E p \in DOMAIN cache : p # Root /\ cache[p] # None

\* C8: in every reachable state, registering an already registered name with
\* the same configuration raises nothing and leaves the whole cache (nodes
\* and configurations) as it was.
C8_ReRegistrationIdempotent ==
    \A n \in ValidNames, conf \in Confs :
        (Split(n) \in DOMAIN cache /\ cache[Split(n)] = conf)
        => \A pn \in OneName(n) :
              LET r == register_packages(cache, pn, conf)
              IN  r.exc = NoExc /\ r.cache = cache

\* C8 witness: a registration call returned without an exception and without
\* changing the cache.
C8_Witness ==
    /\ clast.op = "register_packages"
    /\ clast.exc = NoExc
    /\ ~clast.changed
    /\ \E p \in DOMAIN cache : p # Root /\ cache[p] # None

\* C9: while the root scope carries a configuration, every
\* is_package_registered() call returns True and creates no node.
C9_GlobalShortCircuit ==
    [][(cache[Root] # None /\ clast'.op = "is_package_registered")
          => /\ clast'.ret = True
             /\ cache' = cache
             /\ \A x \in QueryNames : is_package_registered(x)]_vars

\* C9 witness: a query answered True under a configured root scope for a name
\* that has no node in the cache.
C9_Witness ==
    /\ cache[Root] # None
    /\ clast.op = "is_package_registered"
    /\ clast.ret = True
    /\ \E x \in QueryNames : Split(x) \notin DOMAIN cache

\* --------------------------------------------------------- beartypistry claims
\* The key quoted in a code fragment returned by a registrar.
FragmentKey(fragment) == SubSeq(fragment.v, 4, Len(fragment.v) - 2)

\* A step that calls the registry: the modules of the interpreter stay as
\* they are and tlast' describes the call.
IsTypistryCall == modules' = modules

\* C2: every register_typistry_type() call returns a string and raises
\* nothing; a call with a class passed before returns the same string and
\* inserts nothing; the first call with a class inserts exactly
\* (qualified name -> class) if the class is no builtin and nothing if it is.
C2_IdempotentTypeRegistration ==
    [][(IsTypistryCall /\ tlast'.op = "register_typistry_type")
          => /\ tlast'.exc = NoExc
             /\ tlast'.ret.t = "str"
             /\ (tlast.op = "register_typistry_type" /\ tlast.arg = tlast'.arg)
                   => (tlast'.ret = tlast.ret /\ bear_typistry' = bear_typistry)
             /\ (is_class_builtin(tlast'.arg) \/ IsCached(memo_type, tlast'.arg))
                   => bear_typistry' = bear_typistry
             /\ (~is_class_builtin(tlast'.arg) /\ ~IsCached(memo_type, tlast'.arg))
                   => bear_typistry' =
                         Store(bear_typistry, get_object_classname(tlast'.arg), tlast'.arg)]_vars

\* The module attribute a name refers to, None if there is none.
EnvAttr(name) ==
    LET parts == RPartition(name)
    IN  IF /\ parts[1] \in DOMAIN modules
           /\ modules[parts[1]].status = "ok"
           /\ parts[2] \in DOMAIN modules[parts[1]].attrs
        THEN modules[parts[1]].attrs[parts[2]]
        ELSE None

\* The import of the module of a name raises an exception of the module.
EnvModuleRaises(name) ==
    LET parts == RPartition(name)
    IN  parts[1] \in DOMAIN modules /\ modules[parts[1]].status \in RaisingStatuses

C4_ResolvedAtMostOnce ==
    [][(IsTypistryCall /\ tlast'.op = "getitem")
          => /\ (tlast'.exc = NoExc /\ tlast'.arg.v \notin DOMAIN bear_typistry)
                   => /\ tlast'.arg.v \in DOMAIN bear_typistry'
                      /\ bear_typistry'[tlast'.arg.v] = tlast'.ret
             /\ (tlast.op = "getitem" /\ tlast.exc = NoExc /\ tlast.arg = tlast'.arg)
                   => ~tlast'.missing]_vars

\* The calls of register_typistry_tuple() that returned and registered a tuple.
TupleCalls == {a \in DOMAIN memo_tuple : Len(a[1].v) >= 2}

\* The key returned to such a call, and the tuple stored under it.
TupleKey(a) == FragmentKey(memo_tuple[a])
TupleValue(a) == bear_typistry[TupleKey(a)]

HasNoDuplicates(items) == Cardinality(Range(items)) = Len(items)

\* C5: no register_typistry_tuple() call raises, and any two calls with
\* is_types_unique False whose tuples contain the same two or more classes
\* returned keys under which the registry holds tuples with that same set of
\* classes, each without duplicates.
C5_TupleOrderIndependence ==
    /\ tlast.op = "register_typistry_tuple" => tlast.exc = NoExc
    /\ \A a1, a2 \in TupleCalls :
          (/\ ~a1[2] /\ ~a2[2]
           /\ Range(a1[1].v) = Range(a2[1].v)
           /\ Cardinality(Range(a1[1].v)) >= 2)
          => /\ TupleKey(a1) \in DOMAIN bear_typistry
             /\ TupleKey(a2) \in DOMAIN bear_typistry
             /\ Range(TupleValue(a1).v) = Range(a1[1].v)
             /\ Range(TupleValue(a2).v) = Range(a1[1].v)
             /\ HasNoDuplicates(TupleValue(a1).v)
             /\ HasNoDuplicates(TupleValue(a2).v)

\* C5 witness: two different tuples with the same classes were registered,
\* one of them with a duplicate.
C5_Witness ==
    \E a1, a2 \in TupleCalls :
        /\ a1 # a2 /\ ~a1[2] /\ ~a2[2]
        /\ Range(a1[1].v) = Range(a2[1].v)
        /\ Cardinality(Range(a1[1].v)) >= 2
        /\ ~HasNoDuplicates(a1[1].v)

\* key is base followed by zero or more "~".
IsTildeExtension(base, key) ==
    /\ StartsWith(key, base)
    /\ \A i \in (Len(base) + 1)..Len(key) : key[i] = "~"

\* The tuple a call registers is one of these: the tuple passed, or with
\* is_types_unique False its classes without duplicates in any order.
RegisteredFor(a) == IF a[2] THEN {a[1].v} ELSE SetOrders(a[1].v)

\* C6: no register_typistry_tuple() call raises, and any two calls that
\* registered different tuples with equal hashes returned different keys, each
\* the key of that hash followed by zero or more "~", under which the registry
\* holds the tuple of the call.
C6_CollisionDisambiguation ==
    /\ tlast.op = "register_typistry_tuple" => tlast.exc = NoExc
    /\ \A a \in TupleCalls :
          /\ TupleKey(a) \in DOMAIN bear_typistry
          /\ TupleValue(a).v \in RegisteredFor(a)
          /\ IsTildeExtension(
                _TYPISTRY_HINT_NAME_TUPLE_PREFIX \o IntToStr(TupleHash(TupleValue(a).v)),
                TupleKey(a))
    /\ \A a1, a2 \in TupleCalls :
          (a1 # a2 /\ TupleHash(TupleValue(a1).v) = TupleHash(TupleValue(a2).v))
          => TupleKey(a1) # TupleKey(a2)

\* C6 witness: two different tuples with equal hashes are registered, one
\* under the key of the hash and one under that key followed by "~".
C6_Witness ==
    \E a1, a2 \in TupleCalls :
        /\ TupleValue(a1) # TupleValue(a2)
        /\ TupleHash(TupleValue(a1).v) = TupleHash(TupleValue(a2).v)
        /\ TupleKey(a2) = TupleKey(a1) \o <<"~">>
        /\ Cardinality(DOMAIN bear_typistry) = 2

\* ------------------------------------------------------------ rewriter claims
\* The number of leading statements that are a docstring expression or a
\* "from __future__" import.
RECURSIVE LeadingCount(_)
LeadingCount(body) ==
    IF body # <<>> /\ IsDocstringOrFutureImport(Head(body))
    THEN 1 + LeadingCount(Tail(body))
    ELSE 0

IsDecoratorImport(stmt) ==
    /\ stmt.kind = "ImportFrom"
    /\ stmt.module = "beartype._decor.decorcore"
    /\ stmt.names = <<"beartype_object_safe">>

\* C10: a visit of a non-empty module raises nothing and leaves the module
\* with one statement more, the decorator import at 0-based index k for k the
\* number of leading docstring and future-import statements of the module,
\* the statements before it and after it being those of the module in order.
C10_InsertionPoint ==
    (alast.op = "visit_Module" /\ source.body # <<>>)
    => LET k == LeadingCount(source.body)
       IN  /\ alast.exc = NoExc
           /\ Len(tree.body) = Len(source.body) + 1
           /\ IsDecoratorImport(tree.body[k + 1])
           /\ \A i \in 1..k : tree.body[i] = source.body[i]
           /\ \A i \in (k + 1)..Len(source.body) :
                 /\ tree.body[i + 1].kind = source.body[i].kind
                 /\ tree.body[i + 1].loc = source.body[i].loc

\* C11: a visit of a non-empty module whose statements all are docstring
\* expressions or future imports raises nothing and leaves the module with
\* those statements in order followed by the decorator import as the last
\* statement.
C11_TrailingInsertion ==
    (/\ alast.op = "visit_Module"
     /\ source.body # <<>>
     /\ \A i \in DOMAIN source.body : IsDocstringOrFutureImport(source.body[i]))
    => /\ alast.exc = NoExc
       /\ Len(tree.body) = Len(source.body) + 1
       /\ SubSeq(tree.body, 1, Len(source.body)) = source.body
       /\ IsDecoratorImport(tree.body[Len(tree.body)])

\* A function definition with a return annotation or an annotated positional
\* parameter.
IsTyped(f) ==
    \/ f.returns # None
    \/ \E i \in DOMAIN f.args.args : f.args.args[i] # None

\* The decorator list of a function definition after a visit: that before
\* the visit, followed by one beartype_object_safe reference if the function
\* is typed.
IsDecoratedAsTyped(before, after) ==
    after.decorator_list =
        IF IsTyped(before)
        THEN before.decorator_list \o <<Name("beartype_object_safe", before.loc)>>
        ELSE before.decorator_list

C13_WriteOnce ==
    [][/\ \A k \in DOMAIN bear_typistry :
             k \in DOMAIN bear_typistry' /\ bear_typistry'[k] = bear_typistry[k]
       /\ (/\ IsTypistryCall
           /\ tlast'.op = "setitem"
           /\ tlast'.arg.key.t = "str"
           /\ tlast'.arg.key.v \in DOMAIN bear_typistry)
          => /\ tlast'.exc.cls = _BeartypeDecorBeartypistryException
             /\ bear_typistry' = bear_typistry
       /\ (/\ IsTypistryCall
           /\ tlast'.op = "register_typistry_type"
           /\ ~is_class_builtin(tlast'.arg)
           /\ ~IsCached(memo_type, tlast'.arg)
           /\ get_object_classname(tlast'.arg) \in DOMAIN bear_typistry)
          => /\ tlast'.exc.cls = _BeartypeDecorBeartypistryException
             /\ bear_typistry' = bear_typistry]_vars

\* C13 witness: a direct insertion of another value under an existing key was
\* rejected, and the key has the value it had.
C13_Witness ==
    /\ tlast.op = "setitem"
    /\ tlast.exc = Raise(_BeartypeDecorBeartypistryException, "key already registered")
    /\ tlast.arg.key.v \in DOMAIN bear_typistry
    /\ bear_typistry[tlast.arg.key.v] # tlast.arg.value
    /\ tlast.arg.value.t \in {"type", "tuple"}

\* A package name that is no string, is empty or is no "."-delimited
\* concatenation of identifiers.
IsBadName(item) == item.t # "str" \/ item.v = <<>> \/ ~is_identifier(item.v)

\* Arguments register_packages() documents as invalid.
IsMalformed(package_names, conf) ==
    \/ conf \notin Confs
    \/ package_names.t \notin {"str", "tuple", "iterator"}
    \/ package_names.t = "str" /\ IsBadName(package_names)
    \/ package_names.t # "str" /\ package_names.v = <<>>
    \/ package_names.t \in {"tuple", "iterator"}
          /\ \E i \in DOMAIN package_names.v : IsBadName(package_names.v[i])

\* C14: in every reachable state a register_packages() call with a
\* configuration of the wrong type, names that are not iterable or empty, or
\* a name that is no string, empty or no dotted identifier, raises
\* BeartypeClawRegistrationException and leaves the cache as it was.
C14_ValidationPrecedesMutation ==
    \A package_names \in PackageNamesArgs, conf \in ConfArgs :
        IsMalformed(package_names, conf)
        => LET r == register_packages(cache, package_names, conf)
           IN  r.exc.cls = BeartypeClawRegistrationException /\ r.cache = cache

\* The names registered so far: the nodes that carry a configuration.
RegisteredPaths == {p \in DOMAIN cache : p # Root /\ cache[p] # None}

\* C15: while the root scope is unconfigured, is_package_registered() is
\* False for every name none of whose segment-wise prefixes (the name
\* included) is a registered name.
C15_NoFalsePositives ==
    cache[Root] = None
    => \A x \in QueryNames :
          (\A p \in RegisteredPaths : ~IsSegmentPrefix(p, Split(x)))
          => ~is_package_registered(x)

\* C15 witness: with the root scope unconfigured a query answered False while
\* a name is registered whose parent has a node and is not registered.
C15_Witness ==
    /\ cache[Root] = None
    /\ clast.op = "is_package_registered"
    /\ clast.ret = False
    /\ \E p \in RegisteredPaths :
          /\ Len(p) = 2
          /\ SubSeq(p, 1, 1) \in DOMAIN cache
          /\ SubSeq(p, 1, 1) \notin RegisteredPaths

\* C16: a visit of a module without statements raises nothing, inserts no
\* import and leaves the module as it was, its statement list empty.
C16_EmptyModule ==
    (alast.op = "visit_Module" /\ source.body = <<>>)
    => alast.exc = NoExc /\ tree.body = <<>> /\ tree = source

\* C16 witness: a parsed module without statements was visited.
C16_Witness ==
    /\ alast.op = "visit_Module"
    /\ source = Module(<<>>, NoLoc)
    /\ tree.body = <<>>

\* The cause of an exception, by the statement that raises it; a lookup
\* that raises for a name counts as an unresolvable forward reference.
Cause(exc) ==
    CASE exc = NoExc -> "none"
      [] exc.msg \in {"previously registered", "key already registered"} -> "conflict"
      [] exc.cls = BeartypeCallHintForwardRefException -> "forward reference"
      [] exc.cls = ValueError -> "module"
      [] OTHER -> "validation"

\* The exceptions the calls of the package cache and of the registry raise
\* in the current state.
RaisedNow ==
    {register_packages(cache, package_names, conf).exc :
        package_names \in PackageNamesArgs, conf \in ConfArgs}
    \cup {SetItem(bear_typistry, hint_name, hint).exc :
            hint_name \in StoreKeys, hint \in StoreValues}
    \cup {register_typistry_type(St, hint).exc : hint \in Classes \cup {NonClass}}
    \cup {RegisterForwardrefBody(hint_classname).exc : hint_classname \in ForwardrefNames}
    \cup {GetItem(bear_typistry, hint_name).exc : hint_name \in ForwardrefNames}

\* C17: no two exceptions raised for different causes among malformed
\* input, conflicting registration and unresolvable forward reference have
\* the same class.
C17_ErrorKindsDiscriminable ==
    \A e1, e2 \in RaisedNow :
        (/\ Cause(e1) \in {"validation", "conflict", "forward reference"}
         /\ Cause(e2) \in {"validation", "conflict", "forward reference"}
         /\ Cause(e1) # Cause(e2))
        => e1.cls # e2.cls

\* ------------------------------------------------------------- thread claims
\* Two threads that registered the same single name with two configurations.
SameNameOtherConf(t1, t2) ==
    /\ t1 # t2
    /\ thr[t1].pc = "done" /\ thr[t2].pc = "done"
    /\ thr[t1].call.op = "register_packages" /\ thr[t2].call.op = "register_packages"
    /\ thr[t1].call.package_names.t = "str"
    /\ Validate(thr[t1].call.package_names, thr[t1].call.conf) = NoExc
    /\ thr[t1].call.package_names = thr[t2].call.package_names
    /\ thr[t1].call.conf # thr[t2].call.conf

\* C18: with every call made inside the lock, every call returns or raises
\* what it does when the calls are made one by one in the order the lock was
\* taken, the cache is the cache of that order whenever the lock is free, and
\* of two registrations of one name with two configurations exactly one raises
\* the conflict.
C18_LinearizableUnderLock ==
    /\ \A t \in Threads :
          thr[t].pc = "done"
          => thr[t].exc = thr[t].expect.exc /\ thr[t].ret = thr[t].expect.ret
    /\ claw_lock = 0 => AbsCache = lin
    /\ \A t1, t2 \in Threads :
          SameNameOtherConf(t1, t2)
          => \E t \in {t1, t2} :
                /\ thr[t].exc = Raise(BeartypeClawRegistrationException,
                                      "previously registered")
                /\ \A u \in {t1, t2} \ {t} : thr[u].exc = NoExc

\* C18 witness: two threads registered one name with two configurations, one
\* returned and one raised the conflict.
C18_Witness ==
    \E t1, t2 \in Threads :
        /\ SameNameOtherConf(t1, t2)
        /\ thr[t1].exc = NoExc
        /\ thr[t2].exc.msg = "previously registered"
        /\ claw_lock = 0

\* --------------------------------------------------- racing registrar claims
\* The keys of the registry a hint is stored under.
EntriesFor(hint) == {k \in DOMAIN bear_typistry : bear_typistry[k] = hint}

\* C19: when two threads have called the same memoized registrar for the
\* same hint, not registered before, and both calls are over, both returned
\* the same key, neither raised, and the registry holds exactly one entry
\* for that hint.
C19_ConcurrentFirstRegistration ==
    \A t1, t2 \in Threads :
        (/\ t1 # t2
         /\ rthr[t1].pc = "done" /\ rthr[t2].pc = "done"
         /\ rthr[t1].call = rthr[t2].call)
            => /\ rthr[t1].exc = NoExc /\ rthr[t2].exc = NoExc
               /\ rthr[t1].ret = rthr[t2].ret
               /\ Cardinality(EntriesFor(rthr[t1].call.hint)) = 1

\* ------------------------------------------------------ insertion claims
\* C20: a call of register_typistry_type() with a class that is not builtin,
\* whose fully-qualified name is a key of the registry already, raises
\* nothing, leaves the registry as it is and returns the code fragment of
\* that name.
C20_InsertOnlyIfAbsent ==
    [][(/\ IsTypistryCall
        /\ tlast'.op = "register_typistry_type"
        /\ tlast'.arg.t = "type"
        /\ ~is_class_builtin(tlast'.arg)
        /\ get_object_classname(tlast'.arg) \in DOMAIN bear_typistry)
          => /\ tlast'.exc = NoExc
             /\ bear_typistry' = bear_typistry
             /\ tlast'.ret = Str(CodeFragment(get_object_classname(tlast'.arg)))]_vars

\* ------------------------------------------------- package cache claims, II
\* C21: is_packages_registered_any() returns True exactly when the root
\* mapping has a key, and the root mapping has a key exactly when some
\* register_packages() call so far has passed validation and has begun to
\* register a name.
C21_AnyIffRegistrationBegun ==
    /\ ~is_packages_registered_any
    /\ [][/\ is_packages_registered_any' <=> (is_packages_registered_any \/ clast'.began)
          /\ clast'.op = "is_packages_registered_any"
                => clast'.ret = PyBool(\E p \in DOMAIN cache' : Len(p) = 1)]_vars

C21_Witness ==
    /\ clast.op = "is_packages_registered_any"
    /\ clast.ret = True
    /\ cache[Root] = None

\* ------------------------------------------------------------ import claims
\* The exception classes callers pass to import_module().
ExceptionClasses == {BeartypeCallHintForwardRefException, _BeartypeDecorBeartypistryException}

C23_ConfigurationImmutable ==
    [][\A p \in DOMAIN cache :
          cache[p] # None => (p \in DOMAIN cache' /\ cache'[p] = cache[p])]_vars

\* C23 witness: a call with the other configuration named a configured node
\* and a new name; it raised, and the node carries its configuration.
C23_Witness ==
    /\ clast.op = "register_packages"
    /\ clast.exc.msg = "previously registered"
    /\ clast.changed
    /\ \E p, q \in DOMAIN cache : cache[p] = C1 /\ cache[q] = C2

\* The tuples of two or more valid names.
SeveralNames ==
    {pn \in Iterables :
        /\ Len(pn.v) >= 2
        /\ \A i \in DOMAIN pn.v : pn.v[i].t = "str" /\ is_identifier(pn.v[i].v)}

\* The name at index i is registered with a configuration other than conf.
Conflicts(pn, i, conf) ==
    Split(pn.v[i].v) \in DOMAIN cache /\ cache[Split(pn.v[i].v)] \notin {None, conf}

\* C24: in every reachable state, a register_packages() call with several
\* valid names one of which is registered with another configuration raises
\* the conflict, and leaves every name before the first such name registered
\* with the configuration of the call, with every node on the way to these
\* names and every node the cache had before.
C24_NoRollback ==
    \A pn \in SeveralNames, conf \in Confs :
        \A k \in DOMAIN pn.v :
            (Conflicts(pn, k, conf) /\ \A i \in 1..(k - 1) : ~Conflicts(pn, i, conf))
            => LET r == register_packages(cache, pn, conf)
               IN  /\ r.exc = Raise(BeartypeClawRegistrationException, "previously registered")
                   /\ DOMAIN cache \subseteq DOMAIN r.cache
                   /\ \A i \in 1..(k - 1) :
                         /\ \A j \in 1..Len(Split(pn.v[i].v)) :
                               SubSeq(Split(pn.v[i].v), 1, j) \in DOMAIN r.cache
                         /\ r.cache[Split(pn.v[i].v)] = conf

\* C24 witness: a call that began registering raised the conflict, and the
\* cache has a node it did not have before the call.
C24_Witness ==
    /\ clast.op = "register_packages"
    /\ clast.began
    /\ clast.exc = Raise(BeartypeClawRegistrationException, "previously registered")
    /\ clast.changed

\* C25: no step removes a node from the cache, and a name for which
\* is_package_registered() is True before a step is a name for which it is
\* True after the step.
C25_AppendOnly ==
    [][cache' # cache =>
          /\ DOMAIN cache \subseteq DOMAIN cache'
          /\ \A x \in QueryNames :
                is_package_registered_in(cache, x) => is_package_registered_in(cache', x)]_vars

\* C25 witness: a query answered True in a cache to which a name of two
\* segments was registered.
C25_Witness ==
    /\ clast.op = "is_package_registered"
    /\ clast.ret = True
    /\ \E q \in DOMAIN cache : Len(q) = 2 /\ cache[q] # None

\* ------------------------------------------------------- tuple claims, II
\* C26: the registry never holds two keys that map to equal tuples.
C26_OneEntryPerTuple ==
    \A k1, k2 \in DOMAIN bear_typistry :
        (k1 # k2 /\ bear_typistry[k1].t = "tuple" /\ bear_typistry[k2].t = "tuple")
            => bear_typistry[k1] # bear_typistry[k2]

\* ------------------------------------------------------- store guard claims
\* The names builtin classes are referred to by in generated code.
BuiltinShortNames == {get_object_class_basename(cls) : cls \in {c \in Classes : is_class_builtin(c)}}

StringStoreKeys == {k \in StoreKeys : k.t = "str"}
ClassStoreValues == {v \in StoreValues : v.t = "type"}

\* C27: in every reachable state, storing a class under a string key that is
\* no key of the registry succeeds exactly when the key is the
\* fully-qualified name of the class or a builtin short name; otherwise it
\* raises _BeartypeDecorBeartypistryException and stores nothing.
C27_ClassStoreGuard ==
    \A hint_name \in StringStoreKeys, hint \in ClassStoreValues :
        hint_name.v \notin DOMAIN bear_typistry
        => LET r == SetItem(bear_typistry, hint_name, hint)
           IN  IF \/ hint_name.v = get_object_classname(hint)
                  \/ hint_name.v \in BuiltinShortNames
               THEN r.exc = NoExc /\ r.reg = Store(bear_typistry, hint_name.v, hint)
               ELSE /\ r.exc.cls = _BeartypeDecorBeartypistryException
                    /\ r.reg = bear_typistry

\* Every item of a tuple is a class that is not PEP-compliant.
AllPlainClasses(hint) == \A i \in DOMAIN hint.v : hint.v[i].t = "type" /\ ~hint.v[i].pep

\* C28: in every reachable state, storing a tuple succeeds only if every item
\* is a plain class and the key starts with "+"; storing under a key that is
\* no string, or a value that is neither class nor tuple, fails; and every
\* store that fails raises _BeartypeDecorBeartypistryException and leaves the
\* registry as it was.
C28_TupleStoreGuard ==
    \A hint_name \in StoreKeys, hint \in StoreValues :
        LET r == SetItem(bear_typistry, hint_name, hint)
        IN  /\ (hint.t = "tuple" /\ r.exc = NoExc)
                  => /\ AllPlainClasses(hint)
                     /\ StartsWith(hint_name.v, _TYPISTRY_HINT_NAME_TUPLE_PREFIX)
                     /\ r.reg = Store(bear_typistry, hint_name.v, hint)
            /\ (hint_name.t # "str" \/ hint.t \notin {"type", "tuple"}) => r.exc # NoExc
            /\ r.exc # NoExc
                  => /\ r.exc.cls = _BeartypeDecorBeartypistryException
                     /\ r.reg = bear_typistry

\* C28 witness: a tuple of plain classes is stored under a key that starts
\* with "+", and the store of a tuple with a PEP-compliant item was rejected.
C28_Witness ==
    /\ tlast.op = "setitem"
    /\ tlast.arg.value = Tuple(<<ClsA, ClsPep>>)
    /\ tlast.exc = Raise(_BeartypeDecorBeartypistryException, "tuple not nonpep")
    /\ \E k \in DOMAIN bear_typistry :
          bear_typistry[k].t = "tuple" /\ StartsWith(k, _TYPISTRY_HINT_NAME_TUPLE_PREFIX)

\* C29: in every reachable state, a key of the registry starts with "+"
\* exactly when the value stored under it is a tuple.
C29_KeyNamespacesDisjoint ==
    \A k \in DOMAIN bear_typistry :
        StartsWith(k, _TYPISTRY_HINT_NAME_TUPLE_PREFIX) <=> bear_typistry[k].t = "tuple"

\* ------------------------------------------------------ tuple claims, III
\* C30: in every reachable state and for every class C, a call of
\* register_typistry_tuple() with the tuple (C,) returns or raises what a
\* call of register_typistry_type() with C does, leaves the registry as that
\* call leaves it, and adds no tuple to the registry.
C30_SingleElementTupleDegrades ==
    \A cls \in Classes, is_types_unique \in BOOLEAN :
        LET a == register_typistry_tuple(St, Tuple(<<cls>>), is_types_unique, <<cls>>)
            b == register_typistry_type(St, cls)
        IN  /\ a.ret = b.ret
            /\ a.exc = b.exc
            /\ a.st.reg = b.st.reg
            /\ \A k \in DOMAIN a.st.reg \ DOMAIN bear_typistry : a.st.reg[k].t # "tuple"

\* C30 witness: a call with a tuple of one class returned the code fragment
\* of the name of the class, under which the class is stored, and the
\* registry holds no tuple.
C30_Witness ==
    /\ tlast.op = "register_typistry_tuple"
    /\ Len(tlast.arg.hint.v) = 1
    /\ tlast.exc = NoExc
    /\ tlast.ret = Str(CodeFragment(get_object_classname(tlast.arg.hint.v[1])))
    /\ bear_typistry[get_object_classname(tlast.arg.hint.v[1])] = tlast.arg.hint.v[1]
    /\ \A k \in DOMAIN bear_typistry : bear_typistry[k].t = "type"

RECURSIVE NestedAsTyped(_, _)
NestedAsTyped(before, after) ==
    /\ after.kind = before.kind
    /\ before.kind = "FunctionDef" => IsDecoratedAsTyped(before, after)
    /\ IF "body" \in DOMAIN before
       THEN /\ Len(after.body) = Len(before.body)
            /\ \A i \in DOMAIN before.body : NestedAsTyped(before.body[i], after.body[i])
       ELSE after = before

\* A sequence without its item at index p.
Without(seq, p) == SubSeq(seq, 1, p - 1) \o SubSeq(seq, p + 1, Len(seq))

RECURSIVE DecoratorsLocated(_)
DecoratorsLocated(node) ==
    /\ node.kind = "FunctionDef"
          => \A i \in DOMAIN node.decorator_list :
                node.decorator_list[i].id = "beartype_object_safe"
                   => node.decorator_list[i].loc = node.loc
    /\ "body" \in DOMAIN node => \A i \in DOMAIN node.body : DecoratorsLocated(node.body[i])

\* C33: a visit of a non-empty module raises nothing and gives the inserted
\* import the metadata of the statement that was at the index of the
\* insertion; every decorator reference a visit appended has the metadata of
\* the function definition it decorates.
C33_PositionMetadata ==
    /\ alast.op # "none" => DecoratorsLocated(tree)
    /\ (alast.op = "visit_Module" /\ source.body # <<>>)
        => /\ alast.exc = NoExc
           /\ \E p \in DOMAIN source.body :
                 /\ IsDecoratorImport(tree.body[p])
                 /\ tree.body[p].loc = source.body[p].loc

\* A function definition with a return annotation or an annotated parameter
\* of any kind.
IsAnnotated(f) ==
    \/ f.returns # None
    \/ \E i \in DOMAIN f.args.args : f.args.args[i] # None
    \/ \E i \in DOMAIN f.args.kwonlyargs : f.args.kwonlyargs[i] # None

\* C34: a visit of a function definition appends the decorator reference to
\* its decorator list exactly if the function has a return annotation or an
\* annotated parameter of any kind.
C34_AnyParameterKindCounts ==
    alast.op = "visit_FunctionDef"
    => tree.decorator_list =
           IF IsAnnotated(source)
           THEN source.decorator_list \o <<Name("beartype_object_safe", source.loc)>>
           ELSE source.decorator_list

\* ------------------------------------------------- unlocked cache claims
\* The identities of the nodes reachable from the root cache.
ReachableNodes == {x[2] : x \in PathsFrom(0, Root)}

\* The call of thread t is a register_packages() that returned without
\* raising after registering one or more names.
Registered(t) ==
    /\ thr[t].pc = "done"
    /\ thr[t].call # None
    /\ thr[t].call.op = "register_packages"
    /\ thr[t].exc = NoExc
    /\ LoopNames(thr[t].call.package_names) # <<>>

\* The name n is registered with configuration conf: its terminal node is in
\* the cache and carries that configuration.
HasConf(n, conf) ==
    Split(n) \in DOMAIN AbsCache /\ AbsCache[Split(n)] = conf

\* Thread u has made a call of register_packages() that registers names.
Registers(u) ==
    /\ thr[u].call # None
    /\ thr[u].call.op = "register_packages"
    /\ Validate(thr[u].call.package_names, thr[u].call.conf) = NoExc
    /\ LoopNames(thr[u].call.package_names) # <<>>

\* C35: with the calls made outside the lock, a register_packages() call that
\* returned without raising always leaves the node it configured carrying a
\* configuration, and a name it was given is missing from the cache, or
\* carries no or another configuration there, only if another thread has
\* made a register_packages() call registering names; the state in which the
\* configured node was replaced by the fresh node of the other call is the
\* witness.
C35_LossOnlyByOtherRegistration ==
    \A t \in Threads :
        Registered(t)
        => /\ nodes[thr[t].curr].conf \in Confs
           /\ \A i \in DOMAIN LoopNames(thr[t].call.package_names) :
                 \/ HasConf(LoopNames(thr[t].call.package_names)[i].v, thr[t].call.conf)
                 \/ \E u \in Threads \ {t} : Registers(u)

\* C35 witness: a call that registered one name returned without raising, the
\* node it configured is no longer reachable from the root cache, and the
\* name leads to another node, which carries no configuration.
C35_Witness ==
    \E t \in Threads :
        /\ Registered(t)
        /\ thr[t].call.package_names.t = "str"
        /\ nodes[thr[t].curr].conf = thr[t].call.conf
        /\ thr[t].curr \notin ReachableNodes
        /\ Split(thr[t].call.package_names.v) \in DOMAIN AbsCache
        /\ AbsCache[Split(thr[t].call.package_names.v)] = None

\* ------------------------------------------------ package cache claims, III
\* The names a call of register_packages() is given: the string itself, or
\* the items of the iterable, traversable once or more.
GivenNames(package_names) ==
    IF package_names.t = "str" THEN <<package_names>>
    ELSE IF package_names.t \in {"tuple", "iterator"} THEN package_names.v
    ELSE <<>>

\* C36: in every reachable state a register_packages() call that does not
\* raise leaves every name it was given, as one string or through an iterable
\* of any kind, with a terminal node in the cache that carries a
\* configuration.
C36_EveryAcceptedNameRegistered ==
    \A package_names \in PackageNamesArgs, conf \in ConfArgs :
        LET r == register_packages(cache, package_names, conf)
            given == GivenNames(package_names)
        IN  r.exc = NoExc
            => \A i \in DOMAIN given :
                  /\ Split(given[i].v) \in DOMAIN r.cache
                  /\ r.cache[Split(given[i].v)] \in Confs

\* ------------------------------------------------------ tuple claims, II
\* C37: every tuple in the registry holds two or more distinct classes.
C37_StoredTuplesHaveTwoClasses ==
    \A hint_name \in DOMAIN bear_typistry :
        bear_typistry[hint_name].t = "tuple"
        => Cardinality(Range(bear_typistry[hint_name].v)) >= 2

\* --------------------------------------------------- returned key claims
\* The registry holds the class under the key the fragment quotes.
ResolvesToClass(fragment, cls) ==
    /\ FragmentKey(fragment) \in DOMAIN bear_typistry
    /\ bear_typistry[FragmentKey(fragment)] = cls

\* The registry holds, under the key the fragment quotes, a tuple of the
\* classes of hint.
ResolvesToTuple(fragment, hint) ==
    /\ FragmentKey(fragment) \in DOMAIN bear_typistry
    /\ bear_typistry[FragmentKey(fragment)].t = "tuple"
    /\ Range(bear_typistry[FragmentKey(fragment)].v) = Range(hint.v)

\* C38: in every reachable state, the key quoted in every code fragment that
\* register_typistry_type() has returned for a class that is not builtin is a
\* key of the registry whose value is that class, and the key quoted in every
\* code fragment that register_typistry_tuple() has returned for a tuple of
\* two or more items is a key of the registry whose value is a tuple of the
\* same set of classes; this holds for the call just made and for every call
\* made before, whose fragments the memoization caches keep.
C38_ReturnedKeysResolve ==
    /\ \A hint \in DOMAIN memo_type :
          ~is_class_builtin(hint) => ResolvesToClass(memo_type[hint], hint)
    /\ \A args \in DOMAIN memo_tuple :
          Len(args[1].v) >= 2 => ResolvesToTuple(memo_tuple[args], args[1])
    /\ (/\ tlast.op = "register_typistry_type"
        /\ tlast.exc = NoExc
        /\ ~is_class_builtin(tlast.arg))
          => ResolvesToClass(tlast.ret, tlast.arg)
    /\ (/\ tlast.op = "register_typistry_tuple"
        /\ tlast.exc = NoExc
        /\ Len(tlast.arg.hint.v) >= 2)
          => ResolvesToTuple(tlast.ret, tlast.arg.hint)

\* C38 witness: a tuple of two classes was registered, and after it a class
\* that is not builtin; the fragments of both calls resolve.
C38_Witness ==
    /\ tlast.op = "register_typistry_type"
    /\ tlast.exc = NoExc
    /\ ~is_class_builtin(tlast.arg)
    /\ ResolvesToClass(tlast.ret, tlast.arg)
    /\ \E args \in DOMAIN memo_tuple :
          /\ Len(args[1].v) >= 2
          /\ ResolvesToTuple(memo_tuple[args], args[1])

\* --------------------------------------------------- import order claims
\* The node is, or contains at any depth, a function definition that carries
\* the decorator reference.
RECURSIVE ContainsDecorated(_)
ContainsDecorated(node) ==
    \/ /\ node.kind = "FunctionDef"
       /\ \E i \in DOMAIN node.decorator_list :
             node.decorator_list[i].id = "beartype_object_safe"
    \/ /\ "body" \in DOMAIN node
       /\ \E i \in DOMAIN node.body : ContainsDecorated(node.body[i])

C40_QueriesConsistent ==
    (\E package_name \in QueryNames : is_package_registered(package_name))
    => is_packages_registered_any
====
